---- MODULE Spec2Model ----
(***************************************************************************)
(* Model of the SAVP v3.6 weighting and relationship engine                *)
(* (src/savp_v36_core_completo.py).                                        *)
(*                                                                         *)
(* Units.  The source computes with Python floats.  The model uses exact   *)
(* fixed-point integers:                                                   *)
(*   - angles (grado, posicion, distancia, orbe) in thousandths of a       *)
(*     degree, so that round(orbe, 2) is a real conversion;                *)
(*   - weights and multipliers in hundredths (3.0 is 300, 1.20 is 120),    *)
(*     so a product of four factors is in units of 10^-8 and the returned  *)
(*     peso_final, rounded to 2 decimals, is again in hundredths.          *)
(***************************************************************************)
EXTENDS Integers, Sequences, FiniteSets, TLC

VARIABLES
    pc,                  \* position of the running call
    error,               \* exception that ended the call, or "none"
    \* calcular_dignidad / calcular_peso_final_v36
    planeta_data,        \* argument planeta_data (nombre, signo, casa, retrogrado)
    aspectos_count,      \* argument aspectos_count
    dignidad_res,        \* value returned by calcular_dignidad
    ponderacion,         \* value returned by calcular_peso_final_v36
    \* posicion_absoluta / calcular_distancia_angular / detectar_aspecto
    cuerpos,             \* the two bodies whose separation is classified
    distancia,           \* value returned by calcular_distancia_angular
    aspecto_data,        \* value returned by detectar_aspecto
    registro,            \* list of aspect entries appended for the first body of the pair
    \* construir_grafo_dispositores
    planetas_dict,       \* argument planetas: list of (nombre, signo, retrogrado, peso_final)
    nodos,               \* dict nombre -> (dispositor, retrogrado, sephirah, peso)
    dispositores_count,  \* dict target -> number of nodes it disposes
    convergencias,       \* keys of dispositores_count with count > 1
    valvulas,            \* keys of nodos that are retrograde
    motores,             \* keys of nodos whose dispositor is None
    bucles,              \* list of closed loops found so far
    inicio,              \* index in the keys of nodos of the traversal's start
    actual,              \* node the traversal stands on
    visitados,           \* nodes seen by the current traversal
    camino,              \* nodes of the current traversal, in order
    grafo,               \* dict returned by construir_grafo_dispositores, once returned
    \* procesar_carta_savp_v36_completa and calcular_aspectos_carta
    planetas_raw,        \* argument planetas_raw: list of (clave, grado, signo, casa, retrogrado)
    planetas_lista,      \* list of bodies built from planetas_raw
    aspectos_por_planeta,\* dict nombre -> list of aspect entries
    procesados,          \* pairs of names already handled
    idx_p1,              \* index of p1 in the outer loop of calcular_aspectos_carta
    idx_p2,              \* index of p2 in the inner loop
    planetas_savp,       \* list of PlanetaSAVP
    senderos_criticos,   \* list returned by detectar_senderos_criticos
    pilares,             \* pillar -> (peso_total, planetas)
    informe,             \* dict returned by procesar_carta_savp_v36_completa, once returned
    \* calcular_revolucion_solar and find_solar_return_dt_utc (main.py)
    swe,                 \* TRUE when the import of swisseph succeeded (swe is not None)
    oraculo,             \* the longitude swe.calc_ut gives: (tasa, fase) of a linear motion
    target_lon,          \* longitude of the natal Sun
    jd_center,           \* Julian day of the birthday at noon in the target year
    natal,               \* month and day of the natal date
    year,                \* target year of the request
    jd_a,                \* a: left end of the bracket
    jd_b,                \* b: right end of the bracket
    f_a,                 \* fa = diff(a)
    f_b,                 \* fb = diff(b)
    prev_jd,             \* prev_jd: the instant probed before cur
    prev_f,              \* prev_f = diff(prev_jd)
    cur,                 \* instant probed by the 6-hour scan
    sondas,              \* number of iterations of the scan's while loop so far
    iteracion,           \* number of bisection iterations done
    jd_return,           \* (a + b) / 2 after the bisection, once computed
    hora_decimal,        \* hour of the day swe.revjul gives for jd_return
    respuesta,           \* answer of the endpoint, once given
    \* generar_lectura_interpretativa (savp_v36_router.py)
    SAVP_V36_ENABLED,    \* TRUE when main.py could import the router
    MOTOR_LECTURA_DISPONIBLE, \* TRUE when the router could import motor_lectura_v36
    fase,                \* request.fase: <<n>> for the integer n, <<>> for None
    num_fase,            \* loop variable of the reading of all phases
    fases,               \* outcome of each phase read so far
    lectura,             \* answer of the endpoint, once given
    \* generar_tikun_completo and generar_fase_3_cadena on a report
    tikun,               \* what generar_tikun_completo returned, once called
    fase3                \* what the text of generar_fase_3_cadena states, once called

varsPeso   == <<planeta_data, aspectos_count, dignidad_res, ponderacion>>
varsAngulo == <<cuerpos, distancia, aspecto_data, registro>>
varsGrafo  == <<planetas_dict, nodos, dispositores_count, convergencias,
               valvulas, motores, bucles, inicio, actual, visitados, camino,
               grafo>>
varsCarta  == <<planetas_raw, planetas_lista, aspectos_por_planeta, procesados,
               idx_p1, idx_p2, planetas_savp, senderos_criticos, pilares, informe>>
varsRetorno == <<swe, oraculo, target_lon, jd_center, natal, year, jd_a, jd_b,
                 f_a, f_b, prev_jd, prev_f, cur, sondas, iteracion, jd_return,
                 hora_decimal, respuesta>>
varsLectura == <<SAVP_V36_ENABLED, MOTOR_LECTURA_DISPONIBLE, fase, num_fase, fases,
                 lectura>>
\* The state of the core engine and the state of the HTTP services.
varsNucleo == <<varsPeso, varsAngulo, varsGrafo, varsCarta>>
varsTikun == <<tikun, fase3>>
varsServicios == <<varsRetorno, varsLectura, varsTikun>>
vars == <<pc, error, varsNucleo, varsServicios>>

Nulo == "None"

\* Value of distancia before calcular_distancia_angular has returned.
SinDistancia == 0 - 1

\* ------------------------------------------------------------------------
\* Bounds of the model
\* ------------------------------------------------------------------------
MaxAspectosCount == 7
\* Largest number of bodies in a list given to construir_grafo_dispositores.
MaxNodos == 3
\* Largest number of bodies in the planetas_raw of a chart.
MaxCuerpos == 3
\* Number of representable Julian days in one 6-hour step of the scan.
PasoEnRejilla == 4

\* ------------------------------------------------------------------------
\* Tables
\* ------------------------------------------------------------------------
Planetas ==
    {"Sol", "Luna", "Mercurio", "Venus", "Marte", "Jupiter", "Saturno",
     "Urano", "Neptuno", "Pluton"}

\* A body name that no table knows.
PlanetaDesconocido == "Quiron"

SignosCompletos ==
    <<"Aries", "Tauro", "Geminis", "Cancer", "Leo", "Virgo", "Libra",
      "Escorpio", "Sagitario", "Capricornio", "Acuario", "Piscis">>

SignosAbreviados ==
    <<"Ari", "Tau", "Gem", "Can", "Leo", "Vir", "Lib", "Sco", "Sag", "Cap",
      "Aqu", "Pis">>

\* A sign name that no table knows.
SignoDesconocido == "Ofiuco"

Rango(s) == {s[k] : k \in DOMAIN s}

SignosEntrada ==
    Rango(SignosCompletos) \cup Rango(SignosAbreviados) \cup {SignoDesconocido}

SIGNOS_KERYKEION_SAVP ==
    [a \in Rango(SignosAbreviados) |->
        SignosCompletos[CHOOSE k \in 1..12 : SignosAbreviados[k] = a]]

SIGNOS_INDEX ==
    [s \in Rango(SignosCompletos) |->
        (CHOOSE k \in 1..12 : SignosCompletos[k] = s) - 1]

DIGNIDADES_CANONICAS ==
    [p \in Planetas |->
       CASE p = "Sol"      -> [domicilio |-> {"Leo"}, exaltacion |-> {"Aries"},
                               exilio |-> {"Acuario"}, caida |-> {"Libra"}]
         [] p = "Luna"     -> [domicilio |-> {"Cancer"}, exaltacion |-> {"Tauro"},
                               exilio |-> {"Capricornio"}, caida |-> {"Escorpio"}]
         [] p = "Mercurio" -> [domicilio |-> {"Geminis", "Virgo"}, exaltacion |-> {"Virgo"},
                               exilio |-> {"Sagitario", "Piscis"}, caida |-> {"Piscis"}]
         [] p = "Venus"    -> [domicilio |-> {"Tauro", "Libra"}, exaltacion |-> {"Piscis"},
                               exilio |-> {"Aries", "Escorpio"}, caida |-> {"Virgo"}]
         [] p = "Marte"    -> [domicilio |-> {"Aries", "Escorpio"}, exaltacion |-> {"Capricornio"},
                               exilio |-> {"Libra", "Tauro"}, caida |-> {"Cancer"}]
         [] p = "Jupiter"  -> [domicilio |-> {"Sagitario", "Piscis"}, exaltacion |-> {"Cancer"},
                               exilio |-> {"Geminis", "Virgo"}, caida |-> {"Capricornio"}]
         [] p = "Saturno"  -> [domicilio |-> {"Capricornio", "Acuario"}, exaltacion |-> {"Libra"},
                               exilio |-> {"Cancer", "Leo"}, caida |-> {"Aries"}]
         [] p = "Urano"    -> [domicilio |-> {"Acuario"}, exaltacion |-> {"Escorpio"},
                               exilio |-> {"Leo"}, caida |-> {"Tauro"}]
         [] p = "Neptuno"  -> [domicilio |-> {"Piscis"}, exaltacion |-> {"Cancer"},
                               exilio |-> {"Virgo"}, caida |-> {"Capricornio"}]
         [] p = "Pluton"   -> [domicilio |-> {"Escorpio"}, exaltacion |-> {"Leo"},
                               exilio |-> {"Tauro"}, caida |-> {"Acuario"}]]

PLANETA_SEPHIRAH ==
    [p \in Planetas |->
       CASE p = "Sol" -> "Tiphareth" [] p = "Luna" -> "Yesod"
         [] p = "Mercurio" -> "Hod" [] p = "Venus" -> "Netzach"
         [] p = "Marte" -> "Geburah" [] p = "Jupiter" -> "Chesed"
         [] p = "Saturno" -> "Binah" [] p = "Urano" -> "Chokmah"
         [] p = "Neptuno" -> "Kether" [] p = "Pluton" -> "Daath"]

SEPHIRAH_PILAR ==
    [s \in {"Kether", "Chokmah", "Binah", "Chesed", "Geburah", "Tiphareth",
            "Netzach", "Hod", "Yesod", "Malkuth", "Daath"} |->
       IF s \in {"Chokmah", "Chesed", "Netzach"} THEN "derecho"
       ELSE IF s \in {"Binah", "Geburah", "Hod"} THEN "izquierdo"
       ELSE "central"]

REGENCIAS ==
    [s \in Rango(SignosCompletos) |->
       CASE s = "Aries" -> "Marte" [] s = "Tauro" -> "Venus"
         [] s = "Geminis" -> "Mercurio" [] s = "Cancer" -> "Luna"
         [] s = "Leo" -> "Sol" [] s = "Virgo" -> "Mercurio"
         [] s = "Libra" -> "Venus" [] s = "Escorpio" -> "Pluton"
         [] s = "Sagitario" -> "Jupiter" [] s = "Capricornio" -> "Saturno"
         [] s = "Acuario" -> "Urano" [] s = "Piscis" -> "Neptuno"]

\* Base weights in hundredths.
PESO_ESENCIAL ==
    [domicilio |-> 300, exaltacion |-> 200, peregrino |-> 100,
     exilio |-> 50, caida |-> 25]

\* ------------------------------------------------------------------------
\* Pure functions of the weighting engine
\* ------------------------------------------------------------------------
normalizar_signo(signo_corto) ==
    IF signo_corto \in DOMAIN SIGNOS_KERYKEION_SAVP
        THEN SIGNOS_KERYKEION_SAVP[signo_corto]
        ELSE signo_corto

calcular_dignidad_caida_pesa_exilio(planeta, signo) ==
    LET s == normalizar_signo(signo) IN
    IF planeta \notin DOMAIN DIGNIDADES_CANONICAS
        THEN <<"peregrino", 100>>
        ELSE LET digs == DIGNIDADES_CANONICAS[planeta] IN
             IF s \in digs.domicilio THEN <<"domicilio", PESO_ESENCIAL.domicilio>>
             ELSE IF s \in digs.exaltacion THEN <<"exaltacion", PESO_ESENCIAL.exaltacion>>
             ELSE IF s \in digs.exilio THEN <<"exilio", PESO_ESENCIAL.exilio>>
             ELSE IF s \in digs.caida THEN <<"caida", PESO_ESENCIAL.exilio>>
             ELSE <<"peregrino", PESO_ESENCIAL.peregrino>>

calcular_dignidad(planeta, signo) ==
    LET s == normalizar_signo(signo) IN
    IF planeta \notin DOMAIN DIGNIDADES_CANONICAS
        THEN <<"peregrino", 100>>
        ELSE LET digs == DIGNIDADES_CANONICAS[planeta] IN
             IF s \in digs.domicilio THEN <<"domicilio", PESO_ESENCIAL.domicilio>>
             ELSE IF s \in digs.exaltacion THEN <<"exaltacion", PESO_ESENCIAL.exaltacion>>
             ELSE IF s \in digs.exilio THEN <<"exilio", PESO_ESENCIAL.exilio>>
             ELSE IF s \in digs.caida THEN <<"caida", PESO_ESENCIAL.caida>>
             ELSE <<"peregrino", PESO_ESENCIAL.peregrino>>

Min(a, b) == IF a <= b THEN a ELSE b
Abs(x) == IF x < 0 THEN -x ELSE x

M_casa_de_cadente_neutra(casa) ==
    IF casa \in {1, 4, 7, 10} THEN 120
    ELSE IF casa \in {2, 5, 8, 11} THEN 100
    ELSE 100

M_casa_de(casa) ==
    IF casa \in {1, 4, 7, 10} THEN 120
    ELSE IF casa \in {2, 5, 8, 11} THEN 100
    ELSE 85

M_retro_de(retrogrado) == IF retrogrado THEN 90 ELSE 100

M_aspectos_de_sin_tope(n) == 100 + n * 7

M_aspectos_de(n) == 100 + Min(n * 7, 35)

\* round(peso_final, 2) on the product of the four factors (units of 10^-8);
\* the result is in hundredths.  Python rounds the binary double, so a
\* product that is a decimal tie (remainder exactly one half) goes up or down
\* according to the double it evaluates to.  Among the products the factor
\* tables can form, the ties 2.295 (3.0*0.85*0.9 and 2.0*0.85*1.35), 0.605
\* (0.5*1.21) and 0.425 (0.5*0.85) evaluate below the tie and round down;
\* every other tie rounds up.
EmpatesHaciaAbajo == {229500000, 60500000, 42500000}

round2_peso(producto) ==
    LET q == producto \div 1000000
        r == producto % 1000000
    IN
    IF 2 * r > 1000000 THEN q + 1
    ELSE IF 2 * r < 1000000 THEN q
    ELSE IF producto \in EmpatesHaciaAbajo THEN q
    ELSE q + 1

calcular_peso_final_v36(pd, n) ==
    LET dig == calcular_dignidad(pd.nombre, pd.signo)
        peso_base == dig[2]
        M_casa == M_casa_de(pd.casa)
        M_retro == M_retro_de(pd.retrogrado)
        M_aspectos == M_aspectos_de(n)
        peso_final == peso_base * M_casa * M_retro * M_aspectos
    IN  [peso_final |-> round2_peso(peso_final),
         dignidad |-> dig[1],
         peso_esencial |-> peso_base,
         M_casa |-> M_casa,
         M_retro |-> M_retro,
         M_aspectos |-> M_aspectos]

\* ------------------------------------------------------------------------
\* Pure functions of the aspect detector
\* ------------------------------------------------------------------------
\* n degrees in thousandths of a degree.
Grados(n) == n * 1000

posicion_absoluta(signo, grado) ==
    LET s == normalizar_signo(signo)
        idx == IF s \in DOMAIN SIGNOS_INDEX THEN SIGNOS_INDEX[s] ELSE 0
    IN  (idx * Grados(30)) + grado

calcular_distancia_angular_sin_plegar(pos1, pos2) == Abs(pos1 - pos2)

calcular_distancia_angular(pos1, pos2) ==
    LET d == Abs(pos1 - pos2) IN
    IF d > Grados(180) THEN Grados(360) - d ELSE d

ASPECTOS_cuadratura_ancha ==
    << [tipo |-> "conjuncion", angulo |-> Grados(0),   orbe_max |-> Grados(8)],
       [tipo |-> "sextil",     angulo |-> Grados(60),  orbe_max |-> Grados(6)],
       [tipo |-> "cuadratura", angulo |-> Grados(90),  orbe_max |-> Grados(25)],
       [tipo |-> "trigono",    angulo |-> Grados(120), orbe_max |-> Grados(8)],
       [tipo |-> "oposicion",  angulo |-> Grados(180), orbe_max |-> Grados(8)] >>

\* The dict of detectar_aspecto in its insertion order: (angulo, orbe_max).
ASPECTOS ==
    << [tipo |-> "conjuncion", angulo |-> Grados(0),   orbe_max |-> Grados(8)],
       [tipo |-> "sextil",     angulo |-> Grados(60),  orbe_max |-> Grados(6)],
       [tipo |-> "cuadratura", angulo |-> Grados(90),  orbe_max |-> Grados(8)],
       [tipo |-> "trigono",    angulo |-> Grados(120), orbe_max |-> Grados(8)],
       [tipo |-> "oposicion",  angulo |-> Grados(180), orbe_max |-> Grados(8)] >>

\* detectar_aspecto returns None or a pair (tipo, orbe).
NingunAspecto == <<>>

\* First entry of the table, in the order given, whose orb admits the distance.
detectar_aspecto_en(tabla, d) ==
    LET admite == {k \in DOMAIN tabla : Abs(d - tabla[k].angulo) <= tabla[k].orbe_max}
    IN  IF admite = {}
            THEN NingunAspecto
            ELSE LET k == CHOOSE m \in admite : \A n \in admite : m <= n
                 IN  <<tabla[k].tipo, Abs(d - tabla[k].angulo)>>

detectar_aspecto_sextil_ancho(d) ==
    detectar_aspecto_en([ASPECTOS EXCEPT ![2].orbe_max = Grados(8)], d)

detectar_aspecto(d) == detectar_aspecto_en(ASPECTOS, d)

\* round(orbe, 2): nearest hundredth of a degree, kept in thousandths.  The
\* inputs of the model never produce an orb that ends in exactly 5
\* thousandths, where the result would depend on the binary double.
round2_orbe(orbe) == ((orbe + 5) \div 10) * 10

exacto_de(orbe) == orbe <= Grados(3)

\* The entry appended to a body's list for a detected aspect with `con`.
entrada_aspecto(ad, con) ==
    [tipo |-> ad[1], con |-> con, orbe |-> round2_orbe(ad[2]),
     exacto |-> exacto_de(ad[2])]

\* ------------------------------------------------------------------------
\* Specification SpecPeso: one call of calcular_dignidad or of
\* calcular_peso_final_v36 on an arbitrary body
\* ------------------------------------------------------------------------
PesoEnReposo ==
    /\ planeta_data = Nulo /\ aspectos_count = 0
    /\ dignidad_res = Nulo /\ ponderacion = Nulo

AnguloEnReposo ==
    /\ cuerpos = Nulo /\ distancia = SinDistancia
    /\ aspecto_data = NingunAspecto /\ registro = <<>>

\* Value of grafo while construir_grafo_dispositores has not returned.
SinGrafo == [devuelto |-> FALSE]

GrafoEnReposo ==
    /\ planetas_dict = <<>> /\ nodos = <<>> /\ dispositores_count = <<>>
    /\ convergencias = {} /\ valvulas = {} /\ motores = {}
    /\ bucles = <<>> /\ inicio = 0 /\ actual = Nulo
    /\ visitados = {} /\ camino = <<>>
    /\ grafo = SinGrafo

\* Value of informe while procesar_carta_savp_v36_completa has not returned.
SinInforme == [devuelto |-> FALSE]

CartaEnReposo ==
    /\ planetas_raw = <<>> /\ planetas_lista = <<>>
    /\ aspectos_por_planeta = <<>> /\ procesados = {}
    /\ idx_p1 = 0 /\ idx_p2 = 0 /\ planetas_savp = <<>>
    /\ senderos_criticos = <<>> /\ pilares = <<>> /\ informe = SinInforme

\* Value of respuesta while calcular_revolucion_solar has not answered.
SinRespuesta == [status |-> 0, modo |-> "", carta |-> "", detail |-> ""]

RetornoEnReposo ==
    /\ swe = FALSE /\ oraculo = [tasa |-> 0, lon0 |-> 0] /\ target_lon = 0
    /\ jd_center = 0 /\ natal = <<>> /\ year = 0
    /\ jd_a = 0 /\ jd_b = 0 /\ f_a = 0 /\ f_b = 0
    /\ prev_jd = 0 /\ prev_f = 0 /\ cur = 0
    /\ sondas = 0 /\ iteracion = 0 /\ jd_return = SinDistancia
    /\ hora_decimal = 0
    /\ respuesta = SinRespuesta

\* Value of lectura while generar_lectura_interpretativa has not answered.
SinLectura == [status |-> 0, detail |-> ""]

LecturaEnReposo ==
    /\ SAVP_V36_ENABLED = FALSE /\ MOTOR_LECTURA_DISPONIBLE = FALSE
    /\ fase = <<>> /\ num_fase = 0 /\ fases = <<>> /\ lectura = SinLectura

\* Value of tikun while generar_tikun_completo has not returned.
SinTikun == [devuelto |-> FALSE]

\* Value of fase3 while generar_fase_3_cadena has not returned.
SinFase3 == [devuelto |-> FALSE]

TikunEnReposo == tikun = SinTikun /\ fase3 = SinFase3

ServiciosEnReposo == RetornoEnReposo /\ LecturaEnReposo /\ TikunEnReposo

InitPeso ==
    /\ pc = "peso_inicio"
    /\ error = "none"
    /\ planeta_data \in [nombre : Planetas \cup {PlanetaDesconocido},
                         signo : SignosEntrada,
                         casa : 1..12,
                         retrogrado : BOOLEAN]
    /\ aspectos_count \in 0..MaxAspectosCount
    /\ dignidad_res = Nulo
    /\ ponderacion = Nulo
    /\ AnguloEnReposo
    /\ GrafoEnReposo
    /\ CartaEnReposo
    /\ ServiciosEnReposo

LlamarCalcularDignidad ==
    /\ pc = "peso_inicio"
    /\ dignidad_res' = calcular_dignidad(planeta_data.nombre, planeta_data.signo)
    /\ pc' = "dignidad_fin"
    /\ UNCHANGED <<error, planeta_data, aspectos_count, ponderacion, varsAngulo, varsGrafo, varsCarta, varsServicios>>

LlamarCalcularPesoFinal ==
    /\ pc = "peso_inicio"
    /\ ponderacion' = calcular_peso_final_v36(planeta_data, aspectos_count)
    /\ pc' = "peso_fin"
    /\ UNCHANGED <<error, planeta_data, aspectos_count, dignidad_res, varsAngulo, varsGrafo, varsCarta, varsServicios>>

NextPeso == LlamarCalcularDignidad \/ LlamarCalcularPesoFinal

SpecPeso == InitPeso /\ [][NextPeso]_vars

\* ------------------------------------------------------------------------
\* Specification SpecAngulo: the separation of two bodies is computed,
\* classified and recorded as calcular_aspectos_carta does for one pair
\* ------------------------------------------------------------------------
GradosCuerpo1 == {Grados(0), Grados(10), Grados(15), Grados(29)}

\* Whole degrees, and degrees with a part below a hundredth.
GradosCuerpo2 == {Grados(k) + f : k \in 0..29, f \in {0, 4, 996}}

InitAngulo ==
    /\ pc = "angulo_inicio"
    /\ error = "none"
    /\ cuerpos \in [signo1 : Rango(SignosCompletos), grado1 : GradosCuerpo1,
                    signo2 : Rango(SignosAbreviados) \cup {SignoDesconocido},
                    grado2 : GradosCuerpo2]
    /\ distancia = SinDistancia
    /\ aspecto_data = NingunAspecto
    /\ registro = <<>>
    /\ PesoEnReposo
    /\ GrafoEnReposo
    /\ CartaEnReposo
    /\ ServiciosEnReposo

Pos1 == posicion_absoluta(cuerpos.signo1, cuerpos.grado1)
Pos2 == posicion_absoluta(cuerpos.signo2, cuerpos.grado2)

LlamarDistanciaAngular ==
    /\ pc = "angulo_inicio"
    /\ distancia' = calcular_distancia_angular(Pos1, Pos2)
    /\ pc' = "angulo_distancia"
    /\ UNCHANGED <<error, cuerpos, aspecto_data, registro, varsPeso, varsGrafo, varsCarta, varsServicios>>

LlamarDetectarAspecto ==
    /\ pc = "angulo_distancia"
    /\ aspecto_data' = detectar_aspecto(distancia)
    /\ pc' = "angulo_aspecto"
    /\ UNCHANGED <<error, cuerpos, distancia, registro, varsPeso, varsGrafo, varsCarta, varsServicios>>

RegistrarAspecto ==
    /\ pc = "angulo_aspecto"
    /\ registro' = IF aspecto_data # NingunAspecto
                       THEN Append(registro, entrada_aspecto(aspecto_data, "cuerpo2"))
                       ELSE registro
    /\ pc' = "angulo_fin"
    /\ UNCHANGED <<error, cuerpos, distancia, aspecto_data, varsPeso, varsGrafo, varsCarta, varsServicios>>

NextAngulo == LlamarDistanciaAngular \/ LlamarDetectarAspecto \/ RegistrarAspecto

SpecAngulo == InitAngulo /\ [][NextAngulo]_vars

\* ------------------------------------------------------------------------
\* construir_grafo_dispositores
\* ------------------------------------------------------------------------
dispositor_de_sin_motor(nombre, signo) ==
    LET s == normalizar_signo(signo)
    IN  IF s \in DOMAIN REGENCIAS THEN REGENCIAS[s] ELSE Nulo

\* REGENCIAS.get(signo), and None for a body that rules its own sign.
dispositor_de(nombre, signo) ==
    LET s == normalizar_signo(signo)
        d == IF s \in DOMAIN REGENCIAS THEN REGENCIAS[s] ELSE Nulo
    IN  IF d = nombre THEN Nulo ELSE d

\* Keys of nodos in insertion order.  Every list of the model names each
\* body once, as the keys of planetas_raw do.
claves(pl) == [k \in DOMAIN pl |-> pl[k].nombre]

construir_nodos(pl) ==
    [n \in Rango(claves(pl)) |->
        LET k == CHOOSE m \in DOMAIN pl : pl[m].nombre = n IN
        [dispositor |-> dispositor_de(n, pl[k].signo),
         retrogrado |-> pl[k].retrogrado,
         sephirah |-> IF n \in DOMAIN PLANETA_SEPHIRAH THEN PLANETA_SEPHIRAH[n] ELSE Nulo,
         peso |-> pl[k].peso_final]]

contar_dispositores_sin_guarda(nd) ==
    [d \in {nd[n].dispositor : n \in DOMAIN nd} |->
        Cardinality({n \in DOMAIN nd : nd[n].dispositor = d})]

\* dispositores_count: one entry per target that is not None.
contar_dispositores(nd) ==
    [d \in {nd[n].dispositor : n \in DOMAIN nd} \ {Nulo} |->
        Cardinality({n \in DOMAIN nd : nd[n].dispositor = d})]

\* Lines 495-524: nodes, counts, convergences, valves, motors; the list of
\* loops starts empty and the traversals start at the first key.
ConstruirNodos ==
    /\ pc = "grafo_inicio"
    /\ nodos' = construir_nodos(planetas_dict)
    /\ dispositores_count' = contar_dispositores(nodos')
    /\ convergencias' = {d \in DOMAIN dispositores_count' : dispositores_count'[d] > 1}
    /\ valvulas' = {n \in DOMAIN nodos' : nodos'[n].retrogrado}
    /\ motores' = {n \in DOMAIN nodos' : nodos'[n].dispositor = Nulo}
    /\ bucles' = <<>>
    /\ inicio' = 1
    /\ pc' = "grafo_for"
    /\ UNCHANGED <<error, planetas_dict, actual, visitados, camino, grafo,
                   varsPeso, varsAngulo, varsCarta, varsServicios>>

\* Lines 525-528: the for loop takes the next key as start.
IniciarRecorrido ==
    /\ pc = "grafo_for"
    /\ inicio <= Len(planetas_dict)
    /\ visitados' = {}
    /\ actual' = claves(planetas_dict)[inicio]
    /\ camino' = <<>>
    /\ pc' = "grafo_while"
    /\ UNCHANGED <<error, planetas_dict, nodos, dispositores_count, convergencias,
                   valvulas, motores, bucles, inicio, grafo, varsPeso, varsAngulo, varsCarta, varsServicios>>

\* Lines 530-537: one iteration of the while loop on a node that is a key of
\* nodos; a return to the start after more than one node records the loop and
\* breaks.
PasoRecorrido ==
    /\ pc = "grafo_while"
    /\ actual # Nulo
    /\ actual \notin visitados
    /\ actual \in DOMAIN nodos
    /\ LET siguiente == nodos[actual].dispositor
           cam == Append(camino, actual)
           origen == claves(planetas_dict)[inicio]
       IN  /\ visitados' = visitados \cup {actual}
           /\ camino' = cam
           /\ actual' = siguiente
           /\ IF siguiente = origen /\ Len(cam) > 1
                 THEN /\ bucles' = Append(bucles, Append(cam, origen))
                      /\ inicio' = inicio + 1
                      /\ pc' = "grafo_for"
                 ELSE UNCHANGED <<bucles, inicio, pc>>
    /\ UNCHANGED <<error, planetas_dict, nodos, dispositores_count, convergencias,
                   valvulas, motores, grafo, varsPeso, varsAngulo, varsCarta, varsServicios>>

\* Lines 530-533 on a node that is not a key of nodos: nodos[actual] raises
\* KeyError after the node was added to visitados and camino.
PasoKeyError ==
    /\ pc = "grafo_while"
    /\ actual # Nulo
    /\ actual \notin visitados
    /\ actual \notin DOMAIN nodos
    /\ visitados' = visitados \cup {actual}
    /\ camino' = Append(camino, actual)
    /\ error' = "KeyError"
    /\ pc' = "raised"
    /\ UNCHANGED <<planetas_dict, nodos, dispositores_count, convergencias,
                   valvulas, motores, bucles, inicio, actual, grafo,
                   varsPeso, varsAngulo, varsCarta, varsServicios>>

\* Line 530: the while condition is false (None, or a node already seen).
SalirDelWhile ==
    /\ pc = "grafo_while"
    /\ (actual = Nulo \/ actual \in visitados)
    /\ inicio' = inicio + 1
    /\ pc' = "grafo_for"
    /\ UNCHANGED <<error, planetas_dict, nodos, dispositores_count, convergencias,
                   valvulas, motores, bucles, actual, visitados, camino, grafo,
                   varsPeso, varsAngulo, varsCarta, varsServicios>>

\* Lines 539-545: every key was a start; the dict is returned.
RetornarGrafo ==
    /\ pc = "grafo_for"
    /\ inicio > Len(planetas_dict)
    /\ grafo' = [devuelto |-> TRUE, nodos |-> nodos,
                  convergencias |-> convergencias, valvulas |-> valvulas,
                  motores |-> motores, bucles |-> bucles]
    /\ pc' = "grafo_fin"
    /\ UNCHANGED <<error, planetas_dict, nodos, dispositores_count, convergencias,
                   valvulas, motores, bucles, inicio, actual, visitados, camino,
                   varsPeso, varsAngulo, varsCarta, varsServicios>>

PasosGrafo ==
    \/ ConstruirNodos
    \/ IniciarRecorrido
    \/ PasoRecorrido
    \/ PasoKeyError
    \/ SalirDelWhile
    \/ RetornarGrafo

\* ------------------------------------------------------------------------
\* Specification SpecGrafo: one call of construir_grafo_dispositores on a
\* list of at most MaxNodos bodies; the entries carry no 'peso_final', so
\* the node weight is the default 1.0
\* ------------------------------------------------------------------------
OrdenGrafo == <<"Sol", "Luna", "Venus", "Marte">>

\* Signs ruled by a body of the list (given in full or abbreviated), a sign
\* whose ruler is never in the list, and a sign no table knows.
SignosGrafo == {"Aries", "Tau", "Can", "Leo", "Sagitario", SignoDesconocido}

\* The list that gives the bodies of DOMAIN f, in the order of `orden`, the
\* attributes f assigns them.
ListaDe(orden, f) ==
    LET presentes == SelectSeq(orden, LAMBDA n : n \in DOMAIN f)
    IN  [k \in DOMAIN presentes |->
            [nombre |-> presentes[k],
             signo |-> f[presentes[k]].signo,
             retrogrado |-> f[presentes[k]].retrogrado,
             peso_final |-> 100]]

ListasGrafo ==
    {ListaDe(OrdenGrafo, f) :
        f \in UNION {[S -> [signo : SignosGrafo, retrogrado : BOOLEAN]] :
                        S \in {T \in SUBSET Rango(OrdenGrafo) : Cardinality(T) <= MaxNodos}}}

InitGrafo ==
    /\ pc = "grafo_inicio"
    /\ error = "none"
    /\ planetas_dict \in ListasGrafo
    /\ nodos = <<>> /\ dispositores_count = <<>>
    /\ convergencias = {} /\ valvulas = {} /\ motores = {}
    /\ bucles = <<>> /\ inicio = 0 /\ actual = Nulo
    /\ visitados = {} /\ camino = <<>>
    /\ grafo = SinGrafo
    /\ PesoEnReposo
    /\ AnguloEnReposo
    /\ CartaEnReposo
    /\ ServiciosEnReposo

SpecGrafo == InitGrafo /\ [][PasosGrafo]_vars

\* ------------------------------------------------------------------------
\* calcular_aspectos_carta and the first steps of
\* procesar_carta_savp_v36_completa
\* ------------------------------------------------------------------------
nombre_map ==
    [c \in {"sol", "luna", "mercurio", "venus", "marte", "jupiter", "saturno",
            "urano", "neptuno", "pluton"} |->
       CASE c = "sol" -> "Sol" [] c = "luna" -> "Luna"
         [] c = "mercurio" -> "Mercurio" [] c = "venus" -> "Venus"
         [] c = "marte" -> "Marte" [] c = "jupiter" -> "Jupiter"
         [] c = "saturno" -> "Saturno" [] c = "urano" -> "Urano"
         [] c = "neptuno" -> "Neptuno" [] c = "pluton" -> "Pluton"]

\* Lines 574-585: the entries of planetas_raw whose key nombre_map knows.
preparar_lista(raw) ==
    LET conocidos == SelectSeq(raw, LAMBDA e : e.clave \in DOMAIN nombre_map)
    IN  [k \in DOMAIN conocidos |->
            [nombre |-> nombre_map[conocidos[k].clave],
             grado |-> conocidos[k].grado,
             signo |-> conocidos[k].signo,
             casa |-> conocidos[k].casa,
             retrogrado |-> conocidos[k].retrogrado]]

\* Lines 566-588 and 385-386: the list is prepared and calcular_aspectos_carta
\* starts with an empty list per body and no pair handled.
PrepararLista ==
    /\ pc = "carta_inicio"
    /\ planetas_lista' = preparar_lista(planetas_raw)
    /\ aspectos_por_planeta' =
          [n \in Rango(claves(planetas_lista')) |-> <<>>]
    /\ procesados' = {}
    /\ idx_p1' = 1
    /\ idx_p2' = 2
    /\ pc' = "aspectos_for"
    /\ UNCHANGED <<error, planetas_raw, planetas_savp, senderos_criticos, pilares,
                   informe, varsPeso, varsAngulo, varsGrafo, varsServicios>>

agregar_a_ambos_con_repetido(app, n1, n2, ad) ==
    LET con1 == [app EXCEPT ![n1] = Append(@, entrada_aspecto(ad, n2))]
    IN  [con1 EXCEPT ![n2] = Append(@, entrada_aspecto(ad, n2))]

\* Lines 405-418: the aspect is appended to the lists of both bodies.
agregar_a_ambos(app, n1, n2, ad) ==
    LET con1 == [app EXCEPT ![n1] = Append(@, entrada_aspecto(ad, n2))]
    IN  [con1 EXCEPT ![n2] = Append(@, entrada_aspecto(ad, n1))]

\* Lines 391-418: the body of the inner loop for the pair (p1, p2), then the
\* loops advance to the next pair.
ProcesarPar ==
    /\ pc = "aspectos_for"
    /\ idx_p2 <= Len(planetas_lista)
    /\ LET p1 == planetas_lista[idx_p1]
           p2 == planetas_lista[idx_p2]
           par == {p1.nombre, p2.nombre}
           pos1 == posicion_absoluta(p1.signo, p1.grado)
           pos2 == posicion_absoluta(p2.signo, p2.grado)
           ad == detectar_aspecto(calcular_distancia_angular(pos1, pos2))
       IN  IF par \in procesados
              THEN UNCHANGED <<procesados, aspectos_por_planeta>>
              ELSE /\ procesados' = procesados \cup {par}
                   /\ aspectos_por_planeta' =
                         IF ad = NingunAspecto
                            THEN aspectos_por_planeta
                            ELSE agregar_a_ambos(aspectos_por_planeta,
                                                 p1.nombre, p2.nombre, ad)
    /\ IF idx_p2 < Len(planetas_lista)
          THEN idx_p2' = idx_p2 + 1 /\ idx_p1' = idx_p1
          ELSE idx_p1' = idx_p1 + 1 /\ idx_p2' = idx_p1 + 2
    /\ UNCHANGED <<pc, error, planetas_raw, planetas_lista, planetas_savp,
                   senderos_criticos, pilares, informe,
                   varsPeso, varsAngulo, varsGrafo, varsServicios>>

\* calcular_genio: number of the genius of the 5-degree segment.
genio_numero_de(grado, signo) ==
    LET s == normalizar_signo(signo)
        signo_idx == IF s \in DOMAIN SIGNOS_INDEX THEN SIGNOS_INDEX[s] ELSE 0
    IN  1 + (signo_idx * 6) + (grado \div Grados(5))

\* Number of entries of a list of aspects that are exact.
RECURSIVE contar_exactos(_)
contar_exactos(aspectos) ==
    IF aspectos = <<>> THEN 0
    ELSE (IF Head(aspectos).exacto THEN 1 ELSE 0) + contar_exactos(Tail(aspectos))

\* Lines 593-630: the PlanetaSAVP of one body.
planeta_savp_de(pd, aspectos) ==
    LET sephirah == PLANETA_SEPHIRAH[pd.nombre]
        pond == calcular_peso_final_v36(pd, contar_exactos(aspectos))
    IN  [nombre |-> pd.nombre,
         grado |-> pd.grado,
         signo |-> normalizar_signo(pd.signo),
         casa |-> pd.casa,
         retrogrado |-> pd.retrogrado,
         sephirah |-> sephirah,
         pilar |-> SEPHIRAH_PILAR[sephirah],
         dignidad |-> pond.dignidad,
         peso_esencial |-> pond.peso_esencial,
         M_casa |-> pond.M_casa,
         M_retro |-> pond.M_retro,
         M_aspectos |-> pond.M_aspectos,
         peso_final |-> pond.peso_final,
         genio_numero |-> genio_numero_de(pd.grado, pd.signo),
         aspectos |-> aspectos,
         senderos_aspectos |-> <<>>,
         senderos_criticos |-> <<>>]

\* Lines 420 and 590-630: calcular_aspectos_carta returns and every body of
\* the list becomes a PlanetaSAVP.
ConstruirPlanetasSAVP ==
    /\ pc = "aspectos_for"
    /\ idx_p2 > Len(planetas_lista)
    /\ planetas_savp' =
          [k \in DOMAIN planetas_lista |->
              planeta_savp_de(planetas_lista[k],
                              aspectos_por_planeta[planetas_lista[k].nombre])]
    /\ pc' = "carta_senderos"
    /\ UNCHANGED <<error, planetas_raw, planetas_lista, aspectos_por_planeta,
                   procesados, idx_p1, idx_p2, senderos_criticos, pilares, informe,
                   varsPeso, varsAngulo, varsGrafo, varsServicios>>

SENDEROS_ARBOL_con_daath ==
    [num \in 11..32 |->
       CASE num = 11 -> <<"Kether", "Chokmah">>
         [] num = 12 -> <<"Kether", "Binah">>
         [] num = 13 -> <<"Kether", "Tiphareth">>
         [] num = 14 -> <<"Chokmah", "Binah">>
         [] num = 15 -> <<"Chokmah", "Tiphareth">>
         [] num = 16 -> <<"Chokmah", "Chesed">>
         [] num = 17 -> <<"Binah", "Tiphareth">>
         [] num = 18 -> <<"Binah", "Geburah">>
         [] num = 19 -> <<"Chesed", "Geburah">>
         [] num = 20 -> <<"Chesed", "Tiphareth">>
         [] num = 21 -> <<"Chesed", "Netzach">>
         [] num = 22 -> <<"Geburah", "Tiphareth">>
         [] num = 23 -> <<"Geburah", "Hod">>
         [] num = 24 -> <<"Tiphareth", "Netzach">>
         [] num = 25 -> <<"Tiphareth", "Yesod">>
         [] num = 26 -> <<"Tiphareth", "Hod">>
         [] num = 27 -> <<"Netzach", "Hod">>
         [] num = 28 -> <<"Netzach", "Yesod">>
         [] num = 29 -> <<"Netzach", "Malkuth">>
         [] num = 30 -> <<"Hod", "Yesod">>
         [] num = 31 -> <<"Hod", "Malkuth">>
         [] num = 32 -> <<"Yesod", "Daath">>]

\* ------------------------------------------------------------------------
\* Paths: buscar_sendero_entre_sephiroth and detectar_senderos_criticos
\* ------------------------------------------------------------------------
\* The two sephiroth each of the 22 paths joins.
SENDEROS_ARBOL ==
    [num \in 11..32 |->
       CASE num = 11 -> <<"Kether", "Chokmah">>
         [] num = 12 -> <<"Kether", "Binah">>
         [] num = 13 -> <<"Kether", "Tiphareth">>
         [] num = 14 -> <<"Chokmah", "Binah">>
         [] num = 15 -> <<"Chokmah", "Tiphareth">>
         [] num = 16 -> <<"Chokmah", "Chesed">>
         [] num = 17 -> <<"Binah", "Tiphareth">>
         [] num = 18 -> <<"Binah", "Geburah">>
         [] num = 19 -> <<"Chesed", "Geburah">>
         [] num = 20 -> <<"Chesed", "Tiphareth">>
         [] num = 21 -> <<"Chesed", "Netzach">>
         [] num = 22 -> <<"Geburah", "Tiphareth">>
         [] num = 23 -> <<"Geburah", "Hod">>
         [] num = 24 -> <<"Tiphareth", "Netzach">>
         [] num = 25 -> <<"Tiphareth", "Yesod">>
         [] num = 26 -> <<"Tiphareth", "Hod">>
         [] num = 27 -> <<"Netzach", "Hod">>
         [] num = 28 -> <<"Netzach", "Yesod">>
         [] num = 29 -> <<"Netzach", "Malkuth">>
         [] num = 30 -> <<"Hod", "Yesod">>
         [] num = 31 -> <<"Hod", "Malkuth">>
         [] num = 32 -> <<"Yesod", "Malkuth">>]

\* Number of the first path that joins the two sephiroth, 0 for None.
buscar_sendero_entre_sephiroth(seph1, seph2) ==
    IF seph1 = "Daath" \/ seph2 = "Daath"
        THEN 0
        ELSE LET hallados == {num \in DOMAIN SENDEROS_ARBOL :
                                 {seph1, seph2} = Rango(SENDEROS_ARBOL[num])}
             IN  IF hallados = {} THEN 0
                 ELSE CHOOSE num \in hallados : \A otro \in hallados : num <= otro

\* next(p for p in planetas_savp if p.nombre == nombre): index, 0 for None.
indice_de(savp, nombre) ==
    LET ks == {k \in DOMAIN savp : savp[k].nombre = nombre}
    IN  IF ks = {} THEN 0 ELSE CHOOSE k \in ks : \A m \in ks : k <= m

senderos_aspectos_de_solo_exactos(savp, p, aspectos) ==
    LET sendero_de(e) ==
            IF indice_de(savp, e.con) = 0 THEN 0
            ELSE buscar_sendero_entre_sephiroth(p.sephirah,
                     savp[indice_de(savp, e.con)].sephirah)
        con_sendero == SelectSeq(aspectos, LAMBDA e : e.exacto /\ sendero_de(e) # 0)
    IN  [k \in DOMAIN con_sendero |->
            [sendero |-> sendero_de(con_sendero[k]), aspecto |-> con_sendero[k]]]

\* Lines 634-643: the aspects of p whose two sephiroth a path joins.
RECURSIVE senderos_aspectos_de(_, _, _)
senderos_aspectos_de(savp, p, aspectos) ==
    IF aspectos = <<>> THEN <<>>
    ELSE LET aspecto == Head(aspectos)
             k2 == indice_de(savp, aspecto.con)
             sendero == IF k2 = 0 THEN 0
                        ELSE buscar_sendero_entre_sephiroth(p.sephirah, savp[k2].sephirah)
             resto == senderos_aspectos_de(savp, p, Tail(aspectos))
         IN  IF sendero # 0
                THEN <<[sendero |-> sendero, aspecto |-> aspecto]>> \o resto
                ELSE resto

urgencia_de_siempre_media(tipo) == "MEDIA"

\* Line 478: urgency of a critical path from the type of its aspect.
urgencia_de(tipo) ==
    IF tipo \in {"oposicion", "cuadratura"} THEN "ALTA" ELSE "MEDIA"

\* Lines 466-487: the loops over p1 = savp[k] and its aspects from index a
\* on; hechos is the set procesados, criticos the list built so far.  The
\* two peso_final are hundredths, so round(p1.peso_final + p2.peso_final, 2)
\* is their sum in hundredths.
RECURSIVE recorrer_criticos(_, _, _, _, _)
recorrer_criticos(savp, k, a, hechos, criticos) ==
    IF k > Len(savp) THEN criticos
    ELSE IF a > Len(savp[k].aspectos)
        THEN recorrer_criticos(savp, k + 1, 1, hechos, criticos)
    ELSE LET p1 == savp[k]
             aspecto == p1.aspectos[a]
             k2 == indice_de(savp, aspecto.con)
         IN  IF k2 = 0
                THEN recorrer_criticos(savp, k, a + 1, hechos, criticos)
             ELSE LET p2 == savp[k2]
                      par == {p1.nombre, p2.nombre}
                      sendero == buscar_sendero_entre_sephiroth(p1.sephirah, p2.sephirah)
                  IN  IF par \in hechos
                         THEN recorrer_criticos(savp, k, a + 1, hechos, criticos)
                      ELSE IF sendero = 0
                         THEN recorrer_criticos(savp, k, a + 1, hechos \cup {par}, criticos)
                      ELSE recorrer_criticos(savp, k, a + 1, hechos \cup {par},
                              Append(criticos,
                                  [sendero |-> sendero,
                                   planetas |-> <<p1.nombre, p2.nombre>>,
                                   aspecto |-> aspecto,
                                   peso_combinado |-> p1.peso_final + p2.peso_final,
                                   urgencia |-> urgencia_de(aspecto.tipo)]))

\* list.sort(key = peso_combinado, reverse = True): stable, descending.
RECURSIVE ordenar_por_peso(_)
ordenar_por_peso(criticos) ==
    IF criticos = <<>> THEN <<>>
    ELSE LET resto == ordenar_por_peso(Tail(criticos))
             c == Head(criticos)
             antes == SelectSeq(resto, LAMBDA x : x.peso_combinado > c.peso_combinado)
             despues == SelectSeq(resto, LAMBDA x : x.peso_combinado <= c.peso_combinado)
         IN  antes \o <<c>> \o despues

detectar_senderos_criticos_sin_ordenar(savp) ==
    recorrer_criticos(savp, 1, 1, {}, <<>>)

\* Lines 461-490: the critical paths, sorted.
detectar_senderos_criticos(savp) ==
    ordenar_por_peso(recorrer_criticos(savp, 1, 1, {}, <<>>))

\* Lines 632-649: paths by aspect of every body, the critical paths, and the
\* critical paths of every body.
DetectarSenderos ==
    /\ pc = "carta_senderos"
    /\ LET con_aspectos ==
              [k \in DOMAIN planetas_savp |->
                  [planetas_savp[k] EXCEPT
                      !.senderos_aspectos =
                          senderos_aspectos_de(planetas_savp, planetas_savp[k],
                                               planetas_savp[k].aspectos)]]
           criticos == detectar_senderos_criticos(con_aspectos)
       IN  /\ senderos_criticos' = criticos
           /\ planetas_savp' =
                 [k \in DOMAIN con_aspectos |->
                     [con_aspectos[k] EXCEPT
                         !.senderos_criticos =
                             SelectSeq(criticos,
                                 LAMBDA c : con_aspectos[k].nombre \in Rango(c.planetas))]]
    /\ pc' = "carta_grafo"
    /\ UNCHANGED <<error, planetas_raw, planetas_lista, aspectos_por_planeta,
                   procesados, idx_p1, idx_p2, pilares, informe,
                   varsPeso, varsAngulo, varsGrafo, varsServicios>>

\* Lines 651-659: construir_grafo_dispositores is called on the PlanetaSAVP.
LlamarGrafo ==
    /\ pc = "carta_grafo"
    /\ planetas_dict' =
          [k \in DOMAIN planetas_savp |->
              [nombre |-> planetas_savp[k].nombre,
               signo |-> planetas_savp[k].signo,
               retrogrado |-> planetas_savp[k].retrogrado,
               peso_final |-> planetas_savp[k].peso_final]]
    /\ pc' = "grafo_inicio"
    /\ UNCHANGED <<error, nodos, dispositores_count, convergencias, valvulas,
                   motores, bucles, inicio, actual, visitados, camino, grafo,
                   varsPeso, varsAngulo, varsCarta, varsServicios>>

\* ------------------------------------------------------------------------
\* Pillars and the report
\* ------------------------------------------------------------------------
Pilares == <<"izquierdo", "central", "derecho">>

\* Lines 662-673: weight sum and bodies of every pillar.
RECURSIVE sumar_pesos(_)
sumar_pesos(lista) ==
    IF lista = <<>> THEN 0 ELSE Head(lista).peso + sumar_pesos(Tail(lista))

calcular_pilares_central_por_defecto(savp) ==
    [pil \in Rango(Pilares) |->
        LET suyos == SelectSeq(savp, LAMBDA q : q.pilar = pil \/ pil = "central")
            lista == [k \in DOMAIN suyos |->
                        [nombre |-> suyos[k].nombre, peso |-> suyos[k].peso_final]]
        IN  [peso_total |-> sumar_pesos(lista), planetas |-> lista]]

calcular_pilares(savp) ==
    [pil \in Rango(Pilares) |->
        LET suyos == SelectSeq(savp, LAMBDA q : q.pilar = pil)
            lista == [k \in DOMAIN suyos |->
                        [nombre |-> suyos[k].nombre, peso |-> suyos[k].peso_final]]
        IN  [peso_total |-> sumar_pesos(lista), planetas |-> lista]]

total_de(pil) ==
    pil["izquierdo"].peso_total + pil["central"].peso_total + pil["derecho"].peso_total

\* round((peso_total / total) * 100, 1), in tenths of a percent: the values
\* the rounding can give.  The quotient is a binary double, so when the
\* decimal quotient lies exactly half way between two tenths the double lies
\* on either side of it (1.74 of 4.80 gives 36.2, 0.38 of 8.00 gives 4.8).
porcentaje_de(peso_total, total) ==
    LET q == (1000 * peso_total) \div total
        r == (1000 * peso_total) % total
    IN
    IF 2 * r > total THEN {q + 1}
    ELSE IF 2 * r < total THEN {q}
    ELSE {q, q + 1}

\* max(porcentajes.items(), key = value): the first pillar with the largest
\* percentage.
pilar_max_de(porcentajes) ==
    LET mejores == {k \in DOMAIN Pilares :
                       \A m \in DOMAIN Pilares :
                           porcentajes[Pilares[m]] <= porcentajes[Pilares[k]]}
    IN  Pilares[CHOOSE k \in mejores : \A m \in mejores : k <= m]

\* Lines 661-728 when the weights do not add up to zero: percentages,
\* dominant pillar, and the report is returned.
CalcularPilares ==
    /\ pc = "grafo_fin"
    /\ LET pil == calcular_pilares(planetas_savp)
           total == total_de(pil)
       IN  /\ total # 0
           /\ pilares' = pil
           /\ \E izq \in porcentaje_de(pil["izquierdo"].peso_total, total),
                 cen \in porcentaje_de(pil["central"].peso_total, total),
                 der \in porcentaje_de(pil["derecho"].peso_total, total) :
                LET porcentajes == [izquierdo |-> izq, central |-> cen,
                                    derecho |-> der]
                    pilar_max == pilar_max_de(porcentajes)
                IN  informe' =
                          [devuelto |-> TRUE,
                           planetas_savp |-> [n \in Rango(claves(planetas_savp)) |->
                                                 planetas_savp[indice_de(planetas_savp, n)]],
                           pilares |-> pil,
                           porcentajes |-> porcentajes,
                           cadena_dispositores |-> grafo,
                           senderos_criticos_resumen |-> senderos_criticos,
                           diagnostico |->
                               [pilar_dominante |-> pilar_max,
                                porcentaje_dominante |-> porcentajes[pilar_max],
                                tipo |-> IF porcentajes[pilar_max] < 400
                                            THEN "equilibrio" ELSE "dominante"]]
    /\ pc' = "carta_fin"
    /\ UNCHANGED <<error, planetas_raw, planetas_lista, aspectos_por_planeta,
                   procesados, idx_p1, idx_p2, planetas_savp, senderos_criticos,
                   varsPeso, varsAngulo, varsGrafo, varsServicios>>

\* Lines 675-679 when the weights add up to zero: the division raises
\* ZeroDivisionError.
PilaresDivisionPorCero ==
    /\ pc = "grafo_fin"
    /\ LET pil == calcular_pilares(planetas_savp)
       IN  /\ total_de(pil) = 0
           /\ pilares' = pil
    /\ error' = "ZeroDivisionError"
    /\ pc' = "raised"
    /\ UNCHANGED <<planetas_raw, planetas_lista, aspectos_por_planeta,
                   procesados, idx_p1, idx_p2, planetas_savp, senderos_criticos,
                   informe, varsPeso, varsAngulo, varsGrafo, varsServicios>>

\* ------------------------------------------------------------------------
\* Specification Spec: one call of procesar_carta_savp_v36_completa on a
\* planetas_raw of at most MaxCuerpos bodies
\* ------------------------------------------------------------------------
OrdenCarta == <<"sol", "venus", "marte", "pluton">>

\* Sign and degree of a body: two bodies 3.004 degrees apart in Leo, bodies
\* in square and in trine to them, a body without aspect to most of them,
\* and a body in a sign no table knows.
PosicionesCarta ==
    { [signo |-> "Leo", grado |-> Grados(10)],
      [signo |-> "Leo", grado |-> Grados(13) + 4],
      [signo |-> "Sco", grado |-> Grados(10)],
      [signo |-> "Aries", grado |-> Grados(12)],
      [signo |-> "Tau", grado |-> Grados(20)],
      [signo |-> SignoDesconocido, grado |-> Grados(5)] }

\* House and retrograde flag of a body.
PerfilesCarta ==
    { [casa |-> 1, retrogrado |-> FALSE], [casa |-> 6, retrogrado |-> TRUE] }

\* A key of planetas_raw that nombre_map does not know.
EntradaNodo ==
    [clave |-> "nodo_norte", grado |-> Grados(7), signo |-> "Gem", casa |-> 2,
     retrogrado |-> TRUE]

RawDe(f) ==
    LET presentes == SelectSeq(OrdenCarta, LAMBDA c : c \in DOMAIN f)
    IN  [k \in DOMAIN presentes |->
            [clave |-> presentes[k],
             grado |-> f[presentes[k]][1].grado,
             signo |-> f[presentes[k]][1].signo,
             casa |-> f[presentes[k]][2].casa,
             retrogrado |-> f[presentes[k]][2].retrogrado]]

CartasRaw ==
    LET cuerpos_ == {RawDe(f) :
            f \in UNION {[S -> PosicionesCarta \X PerfilesCarta] :
                            S \in {T \in SUBSET Rango(OrdenCarta) : Cardinality(T) <= MaxCuerpos}}}
    IN  cuerpos_ \cup {Append(r, EntradaNodo) : r \in cuerpos_}

Init ==
    /\ pc = "carta_inicio"
    /\ error = "none"
    /\ planetas_raw \in CartasRaw
    /\ planetas_lista = <<>>
    /\ aspectos_por_planeta = <<>> /\ procesados = {}
    /\ idx_p1 = 0 /\ idx_p2 = 0 /\ planetas_savp = <<>>
    /\ senderos_criticos = <<>> /\ pilares = <<>> /\ informe = SinInforme
    /\ PesoEnReposo
    /\ AnguloEnReposo
    /\ GrafoEnReposo
    /\ ServiciosEnReposo

Next ==
    \/ PrepararLista
    \/ ProcesarPar
    \/ ConstruirPlanetasSAVP
    \/ DetectarSenderos
    \/ LlamarGrafo
    \/ ConstruirNodos
    \/ IniciarRecorrido
    \/ PasoRecorrido
    \/ PasoKeyError
    \/ SalirDelWhile
    \/ RetornarGrafo
    \/ CalcularPilares
    \/ PilaresDivisionPorCero

Spec == Init /\ [][Next]_vars

\* ========================================================================
\* Solar return: find_solar_return_dt_utc and calcular_revolucion_solar
\* (main.py)
\* ========================================================================
\* Julian days are doubles.  The model counts them in units of the spacing
\* between neighbouring doubles, scaled so that the 6-hour step of the scan
\* is PasoEnRejilla spacings (it is 2^29 spacings for today's Julian days).
\* Longitudes are thousandths of a degree.
step == PasoEnRejilla

\* step = 0.25: four steps to the day.
PasosPorDia == 4

Dias(n) == n * PasosPorDia * step

\* jd0 = jd_center - 5.0 and jd1 = jd_center + 5.0.
DiasVentana == 5

\* for _ in range(60)
NumIteraciones == 60

\* _sun_lon_ut: the longitude of the Sun at jd, for an ephemeris in which the
\* longitude advances orc.tasa per unit of time from orc.lon0 at jd = 0.
sun_lon_ut(orc, jd) == (orc.tasa * jd + orc.lon0) % Grados(360)

wrap_diff_deg_abierto_por_abajo(lon, target) ==
    Grados(180) - ((target - lon + Grados(540)) % Grados(360))

\* _wrap_diff_deg
wrap_diff_deg(lon, target) ==
    ((lon - target + Grados(540)) % Grados(360)) - Grados(180)

\* diff(jd), the closure of find_solar_return_dt_utc.
diff(orc, target, jd) == wrap_diff_deg(sun_lon_ut(orc, jd), target)

punto_medio_al_tercio(x, y) == x + ((y - x) \div 3)

\* (x + y) / 2.0 in doubles: the sum of two doubles of one binade is rounded to
\* the double spacing of the next binade, ties to even, and halved exactly.
punto_medio(x, y) ==
    LET s == x + y
    IN  IF s % 2 = 0 THEN s \div 2
        ELSE IF ((s - 1) \div 2) % 2 = 0 THEN (s - 1) \div 2
        ELSE (s + 1) \div 2

\* The sign of x * y: the products fa * fb, prev_f * cur_f and fa * fm are
\* only compared with zero.
Signo(x) == IF x > 0 THEN 1 ELSE IF x < 0 THEN 0 - 1 ELSE 0

producto_cero_positivo(x, y) ==
    IF Signo(x) * Signo(y) = 0 THEN 1 ELSE Signo(x) * Signo(y)

producto(x, y) == Signo(x) * Signo(y)

paso_biseccion_mitad_opuesta(br, orc, target) ==
    LET mid == punto_medio(br.a, br.b)
        fm == diff(orc, target, mid)
    IN  IF producto(br.fa, fm) <= 0
           THEN [a |-> mid, b |-> br.b, fa |-> fm, fb |-> br.fb]
           ELSE [a |-> br.a, b |-> mid, fa |-> br.fa, fb |-> fm]

\* Lines 604-609: one iteration of the bisection on the bracket br.
paso_biseccion(br, orc, target) ==
    LET mid == punto_medio(br.a, br.b)
        fm == diff(orc, target, mid)
    IN  IF producto(br.fa, fm) <= 0
           THEN [a |-> br.a, b |-> mid, fa |-> br.fa, fb |-> fm]
           ELSE [a |-> mid, b |-> br.b, fa |-> fm, fb |-> br.fb]

sigue_en_ventana_un_paso_mas(c, b) == c <= b + step

\* Line 590: while cur <= b
sigue_en_ventana(c, b) == c <= b

\* datetime(year, month, day, ...) accepts the date.
es_bisiesto(y) == (y % 4 = 0 /\ y % 100 # 0) \/ y % 400 = 0

dias_del_mes(y, m) ==
    IF m = 2 THEN (IF es_bisiesto(y) THEN 29 ELSE 28)
    ELSE IF m \in {4, 6, 9, 11} THEN 30 ELSE 31

fecha_valida(y, m, d) == m \in 1..12 /\ d \in 1..dias_del_mes(y, m)

\* _jd_to_datetime_utc, lines 533-544, from the hour of the day in tenths of
\* a second: hh, mm and ss as the code computes them; ss is rounded to the
\* nearest second, ties to even, and a minute or an hour that reaches 60 is
\* carried into the next field.
jd_to_datetime_utc(hd) ==
    LET hh == hd \div 36000
        resto == hd % 36000
        mm == resto \div 600
        decimas == resto % 600
        q == decimas \div 10
        r == decimas % 10
        ss == IF r > 5 THEN q + 1
              ELSE IF r < 5 THEN q
              ELSE IF q % 2 = 0 THEN q ELSE q + 1
        mm2 == IF ss = 60 THEN mm + 1 ELSE mm
        ss2 == IF ss = 60 THEN 0 ELSE ss
        hh3 == IF mm2 = 60 THEN hh + 1 ELSE hh
        mm3 == IF mm2 = 60 THEN 0 ELSE mm2
    IN  [hour |-> hh3, minute |-> mm3, second |-> ss2]

\* datetime(...) accepts the time of day.
hora_valida(f) == f.hour \in 0..23 /\ f.minute \in 0..59 /\ f.second \in 0..59

modo_de_siempre_exacto(disponible) == "exacto"

\* Line 804: debug = {"modo": "exacto" if swe is not None else "aproximacion"}
modo_de(disponible) == IF disponible THEN "exacto" ELSE "aproximacion"

\* Lines 857-860: an exception other than HTTPException is answered with 500.
respuesta_500(mensaje) ==
    [status |-> 500, modo |-> "", carta |-> "", detail |-> mensaje]

\* Lines 833-855 when swe is None: the chart of the same month, day and hour
\* in the target year.
ResponderAproximado ==
    /\ pc = "rs_inicio"
    /\ ~swe
    /\ respuesta' = [status |-> 200, modo |-> modo_de(swe), carta |-> "aproximada",
                     detail |-> ""]
    /\ pc' = "rs_fin"
    /\ UNCHANGED <<error, swe, oraculo, target_lon, jd_center, natal, year, jd_a,
                   jd_b, f_a, f_b, prev_jd, prev_f, cur, sondas, iteracion,
                   jd_return, hora_decimal, varsLectura, varsTikun, varsNucleo>>

\* Lines 805-809 and 558-574 when the birthday does not exist in the target
\* year: datetime(year, month, day, 12, 0, 0) raises ValueError.
CentroInvalido ==
    /\ pc = "rs_inicio"
    /\ swe
    /\ ~fecha_valida(year, natal[1], natal[2])
    /\ error' = "ValueError"
    /\ respuesta' = respuesta_500("Error: day is out of range for month")
    /\ pc' = "rs_fin"
    /\ UNCHANGED <<swe, oraculo, target_lon, jd_center, natal, year, jd_a,
                   jd_b, f_a, f_b, prev_jd, prev_f, cur, sondas, iteracion,
                   jd_return, hora_decimal, varsLectura, varsTikun, varsNucleo>>

\* Lines 805-809 and 558-594: find_solar_return_dt_utc is called, the window
\* is laid round jd_center and diff is taken at its two ends; if both have
\* the same strict sign the scan starts.
LlamarFinder ==
    /\ pc = "rs_inicio"
    /\ swe
    /\ fecha_valida(year, natal[1], natal[2])
    /\ LET jd0 == jd_center - Dias(DiasVentana)
           jd1 == jd_center + Dias(DiasVentana)
           fa == diff(oraculo, target_lon, jd0)
           fb == diff(oraculo, target_lon, jd1)
       IN  /\ jd_a' = jd0 /\ jd_b' = jd1 /\ f_a' = fa /\ f_b' = fb
           /\ IF producto(fa, fb) > 0
                 THEN /\ prev_jd' = jd0 /\ prev_f' = fa /\ cur' = jd0 + step
                      /\ pc' = "finder_scan"
                 ELSE /\ UNCHANGED <<prev_jd, prev_f, cur>>
                      /\ pc' = "finder_biseccion"
    /\ UNCHANGED <<error, swe, oraculo, target_lon, jd_center, natal, year,
                   sondas, iteracion, jd_return, hora_decimal, respuesta,
                   varsLectura, varsTikun, varsNucleo>>

\* Lines 590-598: an iteration of the scan.
ProbarPaso ==
    /\ pc = "finder_scan"
    /\ sigue_en_ventana(cur, jd_b)
    /\ sondas' = sondas + 1
    /\ LET cur_f == diff(oraculo, target_lon, cur)
       IN  IF producto(prev_f, cur_f) <= 0
              THEN /\ jd_a' = prev_jd /\ jd_b' = cur
                   /\ f_a' = prev_f /\ f_b' = cur_f
                   /\ pc' = "finder_biseccion"
                   /\ UNCHANGED <<prev_jd, prev_f, cur>>
              ELSE /\ prev_jd' = cur /\ prev_f' = cur_f
                   /\ cur' = cur + step
                   /\ UNCHANGED <<pc, jd_a, jd_b, f_a, f_b>>
    /\ UNCHANGED <<error, swe, oraculo, target_lon, jd_center, natal, year,
                   iteracion, jd_return, hora_decimal, respuesta,
                   varsLectura, varsTikun, varsNucleo>>

\* Lines 590 and 600-601, then 859-860: the scan has left the window without
\* a bracket; the RuntimeError is answered with status 500.
FalloSinBracket ==
    /\ pc = "finder_scan"
    /\ ~sigue_en_ventana(cur, jd_b)
    /\ error' = "RuntimeError"
    /\ respuesta' = respuesta_500(
           "Error: No se pudo acotar el retorno solar (ventana insuficiente).")
    /\ pc' = "rs_fin"
    /\ UNCHANGED <<swe, oraculo, target_lon, jd_center, natal, year, jd_a,
                   jd_b, f_a, f_b, prev_jd, prev_f, cur, sondas, iteracion,
                   jd_return, hora_decimal, varsLectura, varsTikun, varsNucleo>>

\* Lines 603-609: an iteration of the bisection.
PasoBiseccion ==
    /\ pc = "finder_biseccion"
    /\ iteracion < NumIteraciones
    /\ LET br == paso_biseccion([a |-> jd_a, b |-> jd_b, fa |-> f_a, fb |-> f_b],
                                oraculo, target_lon)
       IN  jd_a' = br.a /\ jd_b' = br.b /\ f_a' = br.fa /\ f_b' = br.fb
    /\ iteracion' = iteracion + 1
    /\ UNCHANGED <<pc, error, swe, oraculo, target_lon, jd_center, natal, year,
                   prev_jd, prev_f, cur, sondas, jd_return, hora_decimal,
                   respuesta, varsLectura, varsTikun, varsNucleo>>

\* The hours of the day, in tenths of a second, of the instants returned:
\* noon, the last second of an hour, and the last second of the day.
HorasDecimales ==
    {12 * 36000, 10 * 36000 + 59 * 600 + 596, 23 * 36000 + 59 * 600 + 584,
     23 * 36000 + 59 * 600 + 594, 23 * 36000 + 59 * 600 + 596}

\* Lines 611-612 and 811-856: the midpoint is converted to a datetime and the
\* chart of that minute is answered.
RetornarInstante ==
    /\ pc = "finder_biseccion"
    /\ iteracion = NumIteraciones
    /\ jd_return' = punto_medio(jd_a, jd_b)
    /\ \E hd \in HorasDecimales :
          /\ hora_decimal' = hd
          /\ IF hora_valida(jd_to_datetime_utc(hd))
                THEN /\ respuesta' = [status |-> 200, modo |-> modo_de(swe),
                                      carta |-> "exacta", detail |-> ""]
                     /\ UNCHANGED error
                ELSE /\ error' = "ValueError"
                     /\ respuesta' = respuesta_500("Error: hour must be in 0..23")
    /\ pc' = "rs_fin"
    /\ UNCHANGED <<swe, oraculo, target_lon, jd_center, natal, year, jd_a, jd_b,
                   f_a, f_b, prev_jd, prev_f, cur, sondas, iteracion,
                   varsLectura, varsTikun, varsNucleo>>

\* ------------------------------------------------------------------------
\* Specification SpecRetorno: one request to /solar_return
\* ------------------------------------------------------------------------
\* Advance of the longitude per unit of time: about one degree a day, as the
\* Sun's, and two ephemerides that turn most of a circle within the window.
TasaSolar == Grados(1) \div (PasosPorDia * step)

Tasas == {TasaSolar, Grados(29) \div (PasosPorDia * step),
          Grados(36) \div (PasosPorDia * step)}

\* diff at the left end of the window.
DesfasesIniciales ==
    {0, 1, 0 - 1, 0 - 31, 0 - Grados(3), 0 - Grados(5) + 7,
     0 - TasaSolar * Dias(10), Grados(2), Grados(100), 0 - Grados(20),
     0 - Grados(180), 0 - (Grados(29) \div (PasosPorDia * step)) * 3 * step}

JdCentros == {Dias(6), Dias(6) + 1}

NatalesYAnios == {<<<<6, 15>>, 2025>>, <<<<2, 29>>, 2024>>, <<<<2, 29>>, 2025>>}

InitRetorno ==
    /\ pc = "rs_inicio"
    /\ error = "none"
    /\ swe \in BOOLEAN
    /\ target_lon \in {Grados(84) + 250, Grados(359)}
    /\ jd_center \in JdCentros
    /\ \E ny \in NatalesYAnios : natal = ny[1] /\ year = ny[2]
    /\ \E tasa \in Tasas, d \in DesfasesIniciales :
          oraculo = [tasa |-> tasa,
                     lon0 |-> (target_lon + d
                               - tasa * (jd_center - Dias(DiasVentana)))
                              % Grados(360)]
    /\ jd_a = 0 /\ jd_b = 0 /\ f_a = 0 /\ f_b = 0
    /\ prev_jd = 0 /\ prev_f = 0 /\ cur = 0
    /\ sondas = 0 /\ iteracion = 0 /\ jd_return = SinDistancia
    /\ hora_decimal = 0
    /\ respuesta = SinRespuesta
    /\ LecturaEnReposo
    /\ TikunEnReposo
    /\ PesoEnReposo
    /\ AnguloEnReposo
    /\ GrafoEnReposo
    /\ CartaEnReposo

NextRetorno ==
    \/ ResponderAproximado
    \/ CentroInvalido
    \/ LlamarFinder
    \/ ProbarPaso
    \/ FalloSinBracket
    \/ PasoBiseccion
    \/ RetornarInstante

SpecRetorno == InitRetorno /\ [][NextRetorno]_vars

\* A request that is being served goes on being served.
SpecRetornoJusto == SpecRetorno /\ WF_vars(NextRetorno)

\* ========================================================================
\* Reading: generar_lectura_interpretativa (savp_v36_router.py)
\* ========================================================================
\* Line 322: request.fase < 0 or request.fase > 10
fase_fuera_de_rango(n) == n < 0 \/ n > 10

\* Phases read when no phase is asked for: range(0, 11).
FasesTodas == 0..10

\* main.py lines 31-37 and 59-61: the router could not be imported, so the
\* application has no route /savp/v36/lectura.
RutaNoMontada ==
    /\ pc = "lectura_inicio"
    /\ ~SAVP_V36_ENABLED
    /\ lectura' = [status |-> 404, detail |-> "Not Found"]
    /\ pc' = "lectura_fin"
    /\ UNCHANGED <<error, SAVP_V36_ENABLED, MOTOR_LECTURA_DISPONIBLE, fase,
                   num_fase, fases, varsRetorno, varsTikun, varsNucleo>>

\* Lines 316-317.
MotorNoDisponible ==
    /\ pc = "lectura_inicio"
    /\ SAVP_V36_ENABLED
    /\ ~MOTOR_LECTURA_DISPONIBLE
    /\ lectura' = [status |-> 503, detail |-> "Motor de lectura no disponible"]
    /\ pc' = "lectura_fin"
    /\ UNCHANGED <<error, SAVP_V36_ENABLED, MOTOR_LECTURA_DISPONIBLE, fase,
                   num_fase, fases, varsRetorno, varsTikun, varsNucleo>>

\* Lines 319-323: inside the try, a phase outside 0..10 raises
\* HTTPException(400).
RechazarFase ==
    /\ pc = "lectura_inicio"
    /\ SAVP_V36_ENABLED
    /\ MOTOR_LECTURA_DISPONIBLE
    /\ fase # <<>>
    /\ fase_fuera_de_rango(fase[1])
    /\ error' = "HTTPException(400): Fase debe estar entre 0 y 10"
    /\ pc' = "lectura_except"
    /\ UNCHANGED <<SAVP_V36_ENABLED, MOTOR_LECTURA_DISPONIBLE, fase, num_fase,
                   fases, lectura, varsRetorno, varsTikun, varsNucleo>>

\* Lines 325-336: the phase asked for is generated; generar_fase_completa
\* returns the text or raises, depending on analisis_savp.
GenerarUnaFase ==
    /\ pc = "lectura_inicio"
    /\ SAVP_V36_ENABLED
    /\ MOTOR_LECTURA_DISPONIBLE
    /\ fase # <<>>
    /\ ~fase_fuera_de_rango(fase[1])
    /\ \/ /\ lectura' = [status |-> 200, detail |-> ""]
          /\ pc' = "lectura_fin"
          /\ UNCHANGED error
       \/ /\ error' = "Exception"
          /\ pc' = "lectura_except"
          /\ UNCHANGED lectura
    /\ UNCHANGED <<SAVP_V36_ENABLED, MOTOR_LECTURA_DISPONIBLE, fase, num_fase,
                   fases, varsRetorno, varsTikun, varsNucleo>>

\* Lines 365-366: except Exception catches whatever the try raised,
\* HTTPException included, and raises HTTPException(500).
CapturarExcepcion ==
    /\ pc = "lectura_except"
    /\ lectura' = [status |-> 500, detail |-> "Error generando lectura"]
    /\ pc' = "lectura_fin"
    /\ UNCHANGED <<error, SAVP_V36_ENABLED, MOTOR_LECTURA_DISPONIBLE, fase,
                   num_fase, fases, varsRetorno, varsTikun, varsNucleo>>

\* Lines 340-356: one iteration of the loop over all phases; a phase that
\* raises is recorded with its error.
LeerFaseDeTodas ==
    /\ pc = "lectura_inicio"
    /\ SAVP_V36_ENABLED
    /\ MOTOR_LECTURA_DISPONIBLE
    /\ fase = <<>>
    /\ num_fase \in FasesTodas
    /\ \E resultado \in {"texto", "error"} : fases' = Append(fases, resultado)
    /\ num_fase' = num_fase + 1
    /\ UNCHANGED <<pc, error, SAVP_V36_ENABLED, MOTOR_LECTURA_DISPONIBLE, fase,
                   lectura, varsRetorno, varsTikun, varsNucleo>>

\* Lines 358-363: all phases read.
ResponderTodas ==
    /\ pc = "lectura_inicio"
    /\ SAVP_V36_ENABLED
    /\ MOTOR_LECTURA_DISPONIBLE
    /\ fase = <<>>
    /\ num_fase \notin FasesTodas
    /\ lectura' = [status |-> 200, detail |-> ""]
    /\ pc' = "lectura_fin"
    /\ UNCHANGED <<error, SAVP_V36_ENABLED, MOTOR_LECTURA_DISPONIBLE, fase,
                   num_fase, fases, varsRetorno, varsTikun, varsNucleo>>

\* ------------------------------------------------------------------------
\* Specification SpecLectura: one request to /savp/v36/lectura
\* ------------------------------------------------------------------------
\* Values of request.fase: integers on both sides of the range 0..10.
FasesPedidas == (0 - 3)..14

InitLectura ==
    /\ pc = "lectura_inicio"
    /\ error = "none"
    /\ SAVP_V36_ENABLED \in BOOLEAN
    /\ MOTOR_LECTURA_DISPONIBLE \in BOOLEAN
    /\ fase \in {<<>>} \cup {<<n>> : n \in FasesPedidas}
    /\ num_fase = 0
    /\ fases = <<>>
    /\ lectura = SinLectura
    /\ RetornoEnReposo
    /\ TikunEnReposo
    /\ PesoEnReposo
    /\ AnguloEnReposo
    /\ GrafoEnReposo
    /\ CartaEnReposo

NextLectura ==
    \/ RutaNoMontada
    \/ MotorNoDisponible
    \/ RechazarFase
    \/ GenerarUnaFase
    \/ CapturarExcepcion
    \/ LeerFaseDeTodas
    \/ ResponderTodas

SpecLectura == InitLectura /\ [][NextLectura]_vars

\* ========================================================================
\* Convergences in the tikun (tikun_automatico.py) and in the reading text
\* (motor_lectura_v36.py)
\* ========================================================================
\* The dict 'ponderacion' of a body in the report
\* (savp_v36_core_completo.py, lines 700-707).
ponderacion_de(p) ==
    [dignidad |-> p.dignidad, peso_esencial |-> p.peso_esencial,
     peso_final |-> p.peso_final, M_casa |-> p.M_casa, M_retro |-> p.M_retro,
     M_aspectos |-> p.M_aspectos]

\* The list convergencias of the report in its order: the dispositors in the
\* order in which the nodes first name them, those named more than once.
convergencias_en_orden(rep, savp) ==
    LET disp == [k \in DOMAIN savp |-> rep.cadena_dispositores.nodos[savp[k].nombre].dispositor]
        primeros == SelectSeq([k \in DOMAIN savp |-> k],
                        LAMBDA k : /\ disp[k] \in rep.cadena_dispositores.convergencias
                                   /\ \A j \in 1..(k - 1) : disp[j] # disp[k])
    IN  [i \in DOMAIN primeros |-> disp[primeros[i]]]

\* presion = num_entradas / peso_hub if peso_hub > 0 else 999, compared with
\* 5 and with 3; the weight is in hundredths.
urgencia_por_presion(num_entradas, peso_hub) ==
    IF peso_hub <= 0 THEN "CRITICA"
    ELSE IF num_entradas * 100 > 5 * peso_hub THEN "CRITICA"
    ELSE IF num_entradas * 100 > 3 * peso_hub THEN "ALTA"
    ELSE "MEDIA"

\* generar_tikun_convergencia: the fields num_entradas and peso_hub are the
\* numbers that the texts 'problema' and 'metrica' of the entry state.
generar_tikun_convergencia(planeta_hub, num_entradas, peso_hub) ==
    [tipo |-> "convergencia", planeta |-> planeta_hub,
     num_entradas |-> num_entradas, peso_hub |-> peso_hub,
     urgencia |-> urgencia_por_presion(num_entradas, peso_hub)]

\* Lines 305-309: the bodies of the report whose dict 'ponderacion' has
\* 'dispositor' equal to conv.
num_entradas_de(rep, conv) ==
    Cardinality({n \in DOMAIN rep.planetas_savp :
        LET pond == ponderacion_de(rep.planetas_savp[n])
            dispositor == IF "dispositor" \in DOMAIN pond
                             THEN pond["dispositor"] ELSE Nulo
        IN  dispositor = conv})

\* Line 311: planetas.get(conv, {}).get('ponderacion', {}).get('peso_final', 1.0)
peso_conv_de(rep, conv) ==
    IF conv \in DOMAIN rep.planetas_savp
       THEN ponderacion_de(rep.planetas_savp[conv]).peso_final
       ELSE 100

\* Lines 303-319: tikun_secundario after the loop over the convergences; an
\* entry of urgency CRITICA or ALTA goes to the front, any other to the end.
RECURSIVE tikun_de_convergencias(_, _, _)
tikun_de_convergencias(rep, convs, secundario) ==
    IF convs = <<>> THEN secundario
    ELSE LET conv == Head(convs)
             tikun_conv == generar_tikun_convergencia(conv,
                               num_entradas_de(rep, conv), peso_conv_de(rep, conv))
         IN  tikun_de_convergencias(rep, Tail(convs),
                 IF tikun_conv.urgencia \in {"CRITICA", "ALTA"}
                    THEN <<tikun_conv>> \o secundario
                    ELSE Append(secundario, tikun_conv))

\* Lines 364-369: the stable sort by urgency; the entries of a convergence have
\* neither 'peso_combinado' nor 'peso', so that their second key is 0.
rango_urgencia(u) ==
    CASE u = "CRITICA" -> 0 [] u = "ALTA" -> 1 [] u = "MEDIA" -> 2 [] OTHER -> 3

ordenar_por_urgencia(secundario) ==
    SelectSeq(secundario, LAMBDA e : rango_urgencia(e.urgencia) = 0)
        \o SelectSeq(secundario, LAMBDA e : rango_urgencia(e.urgencia) = 1)
        \o SelectSeq(secundario, LAMBDA e : rango_urgencia(e.urgencia) = 2)
        \o SelectSeq(secundario, LAMBDA e : rango_urgencia(e.urgencia) = 3)

\* generar_tikun_completo on the report returned (savp_v36_router.py, line
\* 258): the entries of tikun_secundario that come from convergences, in
\* their final order, and urgencia_maxima, which only a convergence raises.
GenerarTikunCompleto ==
    /\ pc = "carta_fin"
    /\ informe.devuelto
    /\ tikun = SinTikun
    /\ LET convs == convergencias_en_orden(informe, planetas_savp)
           secundario == tikun_de_convergencias(informe, convs, <<>>)
       IN  tikun' =
              [devuelto |-> TRUE,
               convergencias |-> ordenar_por_urgencia(secundario),
               urgencia_maxima |->
                   IF \E e \in DOMAIN secundario :
                          secundario[e].urgencia \in {"CRITICA", "ALTA"}
                      THEN "ALTA" ELSE "BAJA"]
    /\ UNCHANGED <<pc, error, fase3, varsRetorno, varsLectura, varsNucleo>>

\* Lines 519-533 of motor_lectura_v36.py: what the text says of one
\* convergence.
fase_3_de(rep, conv) ==
    LET nd == rep.cadena_dispositores.nodos
        entradas == Cardinality({n \in DOMAIN nd : nd[n].dispositor = conv})
        peso == IF conv \in DOMAIN nd THEN nd[conv].peso ELSE 0
    IN  [planeta |-> conv, entradas |-> entradas, peso |-> peso,
         urgencia |-> urgencia_por_presion(entradas, peso)]

\* generar_fase_3_cadena on the report returned: the convergences and the
\* number of loops its text states.
GenerarFase3Cadena ==
    /\ pc = "carta_fin"
    /\ informe.devuelto
    /\ fase3 = SinFase3
    /\ LET convs == convergencias_en_orden(informe, planetas_savp)
       IN  fase3' = [devuelto |-> TRUE,
                     convergencias |-> [i \in DOMAIN convs |-> fase_3_de(informe, convs[i])],
                     bucles_detectados |-> Len(informe.cadena_dispositores.bucles)]
    /\ UNCHANGED <<pc, error, tikun, varsRetorno, varsLectura, varsNucleo>>

\* ------------------------------------------------------------------------
\* Specification SpecTikun: a chart is processed and the tikun and the text of
\* phase 3 are generated from its report
\* ------------------------------------------------------------------------
\* The signs of the charts: each is ruled by a body of OrdenCarta.
SignosTikun == {"Aries", "Tau", "Leo"}

CartasTikun ==
    {r \in CartasRaw : \A k \in DOMAIN r : r[k].signo \in SignosTikun}

InitTikun ==
    /\ pc = "carta_inicio"
    /\ error = "none"
    /\ planetas_raw \in CartasTikun
    /\ planetas_lista = <<>>
    /\ aspectos_por_planeta = <<>> /\ procesados = {}
    /\ idx_p1 = 0 /\ idx_p2 = 0 /\ planetas_savp = <<>>
    /\ senderos_criticos = <<>> /\ pilares = <<>>
    /\ informe = SinInforme
    /\ PesoEnReposo
    /\ AnguloEnReposo
    /\ GrafoEnReposo
    /\ ServiciosEnReposo

NextTikun ==
    \/ PrepararLista
    \/ ProcesarPar
    \/ ConstruirPlanetasSAVP
    \/ DetectarSenderos
    \/ LlamarGrafo
    \/ ConstruirNodos
    \/ IniciarRecorrido
    \/ PasoRecorrido
    \/ PasoKeyError
    \/ SalirDelWhile
    \/ RetornarGrafo
    \/ CalcularPilares
    \/ PilaresDivisionPorCero
    \/ GenerarTikunCompleto
    \/ GenerarFase3Cadena

SpecTikun == InitTikun /\ [][NextTikun]_vars

\* ========================================================================
\* Properties of the weighting engine (SpecPeso)
\* ========================================================================
ProductoExacto ==
    ponderacion.peso_esencial * ponderacion.M_casa * ponderacion.M_retro
        * ponderacion.M_aspectos

\* C3: for every body, sign, house 1..12, retrograde flag and exact-aspect
\* count, the final weight lies in (0, 3.0 x 1.20 x 1.00 x 1.35 = 4.86], both
\* as the full product and as the 2-decimal value the function returns.
C3_PesoFinalAcotado ==
    pc = "peso_fin" =>
        /\ 0 < ponderacion.peso_final
        /\ ponderacion.peso_final <= 486
        /\ 0 < ProductoExacto
        /\ ProductoExacto <= 300 * 120 * 100 * 135

\* Witness of C3: a domiciled body in an angular house, direct, with at
\* least five exact aspects, reaches the upper limit 4.86.
C3_Witness ==
    /\ pc = "peso_fin"
    /\ ponderacion.dignidad = "domicilio"
    /\ planeta_data.casa = 10
    /\ ~planeta_data.retrogrado
    /\ aspectos_count > 5
    /\ ponderacion.peso_final = 486

\* C4: the returned final weight is base x house x retrograde x aspect
\* multiplier, to the nearest hundredth; house multiplier 1.20 / 1.00 / 0.85
\* for angular / succedent / cadent houses; retrograde multiplier 0.90 or
\* 1.00; aspect multiplier 1.00 + min(n x 0.07, 0.35), non-decreasing in n
\* and constant from n = 5 on; Sol in Leo, house 5, direct, no exact aspect
\* gives 3.00.
C4_PesoEsProducto ==
    pc = "peso_fin" =>
        /\ planeta_data.casa \in {1, 4, 7, 10} => ponderacion.M_casa = 120
        /\ planeta_data.casa \in {2, 5, 8, 11} => ponderacion.M_casa = 100
        /\ planeta_data.casa \in {3, 6, 9, 12} => ponderacion.M_casa = 85
        /\ ponderacion.M_retro = (IF planeta_data.retrogrado THEN 90 ELSE 100)
        /\ aspectos_count < 5 => ponderacion.M_aspectos = 100 + 7 * aspectos_count
        /\ aspectos_count >= 5 => ponderacion.M_aspectos = 135
        /\ \A m \in 0..aspectos_count :
               100 + Min(7 * m, 35) <= ponderacion.M_aspectos
        /\ 2 * Abs(ponderacion.peso_final * 1000000 - ProductoExacto) <= 1000000
        /\ ( /\ planeta_data.nombre = "Sol"
             /\ planeta_data.signo = "Leo"
             /\ planeta_data.casa = 5
             /\ ~planeta_data.retrogrado
             /\ aspectos_count = 0 )
           => /\ ponderacion.dignidad = "domicilio"
              /\ ponderacion.peso_final = 300

\* Witness of C4: a cadent, retrograde body with two exact aspects, whose
\* product 2.0 x 0.85 x 0.90 x 1.14 = 1.7442 is returned as 1.74.
C4_Witness ==
    /\ pc = "peso_fin"
    /\ planeta_data.casa = 9
    /\ planeta_data.retrogrado
    /\ aspectos_count = 2
    /\ ponderacion.peso_esencial = 200
    /\ ProductoExacto = 174420000
    /\ ponderacion.peso_final = 174

SignosConocidos == Rango(SignosCompletos) \cup Rango(SignosAbreviados)

\* C5: calcular_dignidad returns for every input; an unknown body, or a
\* known body in an unknown sign, is ('peregrino', 1.0); the weight returned
\* is always the table weight of the category returned.
C5_DignidadPorDefecto ==
    pc = "dignidad_fin" =>
        /\ error = "none"
        /\ dignidad_res # Nulo
        /\ planeta_data.nombre \notin Planetas => dignidad_res = <<"peregrino", 100>>
        /\ planeta_data.signo \notin SignosConocidos => dignidad_res = <<"peregrino", 100>>
        /\ dignidad_res[1] = "domicilio" => dignidad_res[2] = 300
        /\ dignidad_res[1] = "exaltacion" => dignidad_res[2] = 200
        /\ dignidad_res[1] = "peregrino" => dignidad_res[2] = 100
        /\ dignidad_res[1] = "exilio" => dignidad_res[2] = 50
        /\ dignidad_res[1] = "caida" => dignidad_res[2] = 25
        /\ dignidad_res[1] \in {"domicilio", "exaltacion", "peregrino", "exilio", "caida"}

\* Witness of C5: a body in its fall, given by an abbreviated sign.
C5_Witness ==
    /\ pc = "dignidad_fin"
    /\ planeta_data.nombre = "Luna"
    /\ planeta_data.signo = "Sco"
    /\ dignidad_res = <<"caida", 25>>

\* ========================================================================
\* Properties of the aspect detector on one pair (SpecAngulo)
\* ========================================================================
\* C7: for two positions in [0,360) the distance is min(|d|, 360 - |d|), it
\* lies in [0,180], and it is the same for (p1,p2) and (p2,p1).
C7_DistanciaAngular ==
    pc \in {"angulo_distancia", "angulo_aspecto", "angulo_fin"} =>
        LET d == Abs(Pos1 - Pos2) IN
        /\ Pos1 \in 0..(Grados(360) - 1)
        /\ Pos2 \in 0..(Grados(360) - 1)
        /\ distancia = Min(d, Grados(360) - d)
        /\ distancia >= 0
        /\ distancia <= Grados(180)
        /\ calcular_distancia_angular(Pos2, Pos1) = distancia

\* Witness of C7: a pair more than 180 degrees apart on the circle of
\* longitudes, whose distance is taken the short way round.
C7_Witness ==
    /\ pc = "angulo_distancia"
    /\ Abs(Pos1 - Pos2) > Grados(180)
    /\ distancia = Grados(360) - Abs(Pos1 - Pos2)
    /\ distancia < Grados(180)

\* Reference angle and tolerance of an aspect type.
AnguloDe(tipo) ==
    CASE tipo = "conjuncion" -> Grados(0)
      [] tipo = "sextil" -> Grados(60)
      [] tipo = "cuadratura" -> Grados(90)
      [] tipo = "trigono" -> Grados(120)
      [] tipo = "oposicion" -> Grados(180)

ToleranciaDe(tipo) == IF tipo = "sextil" THEN Grados(6) ELSE Grados(8)

TiposAspecto == {"conjuncion", "sextil", "cuadratura", "trigono", "oposicion"}

EnVentana(s) ==
    \E t \in TiposAspecto : Abs(s - AnguloDe(t)) <= ToleranciaDe(t)

\* The part of C8 that does not depend on how the orb is recorded.
C8_Clasificacion ==
    /\ Len(registro) <= 1
    /\ (registro # <<>>) <=> EnVentana(distancia)
    /\ registro # <<>> =>
          /\ registro[1].tipo \in TiposAspecto
          /\ Abs(distancia - AnguloDe(registro[1].tipo)) <= ToleranciaDe(registro[1].tipo)
          /\ registro[1].exacto <=>
                (Abs(distancia - AnguloDe(registro[1].tipo)) <= Grados(3))
    /\ (Pos1 = Grados(10) /\ Pos2 = Grados(100)) =>
          /\ registro # <<>>
          /\ registro[1].tipo = "cuadratura"
          /\ registro[1].orbe = 0
          /\ registro[1].exacto

GrafoConstruido == pc \in {"grafo_for", "grafo_while", "grafo_fin", "raised"}

LlamadaGrafoTerminada == pc \in {"grafo_fin", "raised"}

\* C2: construir_grafo_dispositores never raises: for every list of bodies,
\* whatever their signs and whether or not every sign ruler is in the list,
\* the call returns a dict with nodos, convergencias, valvulas, motores and
\* bucles.
C2_GrafoNuncaFalla ==
    /\ error = "none"
    /\ pc # "raised"
    /\ LlamadaGrafoTerminada => grafo.devuelto

RECURSIVE SumaDe(_, _)
SumaDe(f, S) ==
    IF S = {} THEN 0
    ELSE LET x == CHOOSE y \in S : TRUE IN f[x] + SumaDe(f, S \ {x})

\* Edges of the graph built: (node, target) for every dispositor not None.
Aristas == {<<n, nodos[n].dispositor>> : n \in {m \in DOMAIN nodos : nodos[m].dispositor # Nulo}}

\* The body of entry k of the list occupies a sign that it rules itself.
RigeSuSigno(k) ==
    LET s == normalizar_signo(planetas_dict[k].signo) IN
    s \in DOMAIN REGENCIAS /\ REGENCIAS[s] = planetas_dict[k].nombre

\* C9: every node has at most one outgoing edge, which is None when the body
\* rules its own sign and the ruler of its sign otherwise; the inbound counts
\* used for the convergences add up to the number of nodes with an edge.
C9_GradoDeSalida ==
    GrafoConstruido =>
        /\ DOMAIN nodos = {planetas_dict[k].nombre : k \in DOMAIN planetas_dict}
        /\ \A n \in DOMAIN nodos : Cardinality({a \in Aristas : a[1] = n}) <= 1
        /\ \A k \in DOMAIN planetas_dict :
              LET n == planetas_dict[k].nombre
                  s == normalizar_signo(planetas_dict[k].signo)
              IN  /\ RigeSuSigno(k) => nodos[n].dispositor = Nulo
                  /\ (s \in DOMAIN REGENCIAS /\ ~RigeSuSigno(k))
                        => <<n, REGENCIAS[s]>> \in Aristas
        /\ \A d \in DOMAIN dispositores_count :
              dispositores_count[d] = Cardinality({a \in Aristas : a[2] = d})
        /\ SumaDe(dispositores_count, DOMAIN dispositores_count)
              = Cardinality({n \in DOMAIN nodos : nodos[n].dispositor # Nulo})
        /\ convergencias = {d \in DOMAIN dispositores_count : dispositores_count[d] > 1}

\* Witness of C9: a returned graph with a motor, a convergence on it and a
\* third node with an edge of its own.
C9_Witness ==
    /\ pc = "grafo_fin"
    /\ Cardinality(DOMAIN nodos) = 3
    /\ motores # {}
    /\ convergencias # {}
    /\ Cardinality(DOMAIN dispositores_count) = 1
    /\ SumaDe(dispositores_count, DOMAIN dispositores_count) = 2

\* c is a closed loop of the graph: k >= 2 distinct nodes, each followed by
\* its dispositor, and the first name repeated at the end.
EsBucleDe(nd, c) ==
    /\ Len(c) >= 3
    /\ c[1] = c[Len(c)]
    /\ \A a, b \in 1..(Len(c) - 1) : a # b => c[a] # c[b]
    /\ \A a \in 1..(Len(c) - 1) :
          c[a] \in DOMAIN nd /\ nd[c[a]].dispositor = c[a + 1]

\* The node reached from n by following j outgoing edges (None once the
\* chain has ended or left the nodes).
RECURSIVE Sigue(_, _, _)
Sigue(nd, n, j) ==
    IF j = 0 THEN n
    ELSE LET m == Sigue(nd, n, j - 1)
         IN  IF m \in DOMAIN nd THEN nd[m].dispositor ELSE Nulo

\* n lies on a closed loop of two or more nodes.
EnBucle(nd, n) ==
    \E j \in 2..Cardinality(DOMAIN nd) : Sigue(nd, n, j) = n

\* C10: when the call has ended, every closed loop of k >= 2 bodies is in
\* the bucles returned, as k+1 names that follow the outgoing edges from a
\* node back to itself, and every sequence in bucles is such a loop.
C10_BuclesDetectados ==
    LlamadaGrafoTerminada =>
        /\ \A n \in DOMAIN nodos :
              EnBucle(nodos, n) =>
                  /\ grafo.devuelto
                  /\ \E b \in 1..Len(grafo.bucles) :
                        /\ EsBucleDe(nodos, grafo.bucles[b])
                        /\ grafo.bucles[b][1] = n
        /\ grafo.devuelto =>
              \A b \in 1..Len(grafo.bucles) : EsBucleDe(grafo.nodos, grafo.bucles[b])

\* The nodes of a recorded loop.
NodosDeBucle(c) == {c[a] : a \in 1..Len(c)}

\* C11: each closed loop of the graph is recorded exactly once in bucles: no
\* two entries of the returned list are the same loop started from different
\* nodes, so the length of bucles is the number of distinct loops.
C11_BucleUnaVez ==
    (pc = "grafo_fin" /\ grafo.devuelto) =>
        /\ \A a, b \in 1..Len(grafo.bucles) :
              a # b => NodosDeBucle(grafo.bucles[a]) # NodosDeBucle(grafo.bucles[b])
        /\ Len(grafo.bucles) =
              Cardinality({NodosDeBucle(grafo.bucles[a]) : a \in 1..Len(grafo.bucles)})


\* C21: a body that occupies a sign it rules has outgoing edge None, is
\* listed in motores and is in no recorded loop; no recorded loop has a
\* single node; valvulas is exactly the set of retrograde bodies, whatever
\* the edges are; and the returned dict carries these same lists.
C21_MotoresYValvulas ==
    GrafoConstruido =>
        /\ \A k \in DOMAIN planetas_dict :
              LET n == planetas_dict[k].nombre IN
              RigeSuSigno(k) =>
                  /\ nodos[n].dispositor = Nulo
                  /\ n \in motores
                  /\ \A b \in 1..Len(bucles) : n \notin NodosDeBucle(bucles[b])
        /\ \A b \in 1..Len(bucles) :
              /\ Len(bucles[b]) >= 3
              /\ Cardinality(NodosDeBucle(bucles[b])) >= 2
        /\ valvulas = {planetas_dict[k].nombre :
                          k \in {m \in DOMAIN planetas_dict : planetas_dict[m].retrogrado}}
        /\ grafo.devuelto =>
              /\ grafo.motores = motores
              /\ grafo.valvulas = valvulas
              /\ grafo.bucles = bucles

\* A returned graph in which a retrograde body rules its own sign, so that it
\* is motor and valve at once, next to a loop of two other bodies.
C21_Witness ==
    /\ pc = "grafo_fin"
    /\ grafo.devuelto
    /\ \E k \in DOMAIN planetas_dict :
          /\ RigeSuSigno(k)
          /\ planetas_dict[k].retrogrado
          /\ planetas_dict[k].nombre \in grafo.motores \cap grafo.valvulas
    /\ Len(grafo.bucles) > 0

\* C22: each traversal visits nodes of the graph only, every node at most
\* once, so it has made at most as many steps as the graph has nodes,
\* whether it goes on or has ended; and no key is a start more than once.
C22_RecorridoAcotado ==
    /\ GrafoConstruido =>
          /\ Len(camino) <= Cardinality(DOMAIN nodos)
          /\ \A a, b \in DOMAIN camino : a # b => camino[a] # camino[b]
          /\ Rango(camino) \subseteq DOMAIN nodos
          /\ Cardinality(visitados) <= Cardinality(DOMAIN nodos)
    /\ inicio <= Len(planetas_dict) + 1
\* ========================================================================
\* Properties of a whole chart (Spec)
\* ========================================================================
\* Names of the bodies of planetas_raw that the engine knows.
NombresSuministrados ==
    {nombre_map[planetas_raw[k].clave] :
        k \in {m \in DOMAIN planetas_raw : planetas_raw[m].clave \in DOMAIN nombre_map}}

\* The report returned covers exactly the bodies supplied.
InformeCubreSuministrados ==
    /\ informe.devuelto
    /\ DOMAIN informe.planetas_savp = NombresSuministrados
    /\ DOMAIN informe.cadena_dispositores.nodos = NombresSuministrados
    /\ UNION {{informe.pilares[pil].planetas[k].nombre :
                  k \in DOMAIN informe.pilares[pil].planetas} :
                 pil \in DOMAIN informe.pilares} = NombresSuministrados
    /\ \A k \in DOMAIN informe.senderos_criticos_resumen :
          Rango(informe.senderos_criticos_resumen[k].planetas) \subseteq NombresSuministrados

\* C1: for every subset of the bodies supplied (a ruler of an occupied sign
\* may be missing, no body may be supplied at all) the call never fails, and
\* the report it returns covers exactly the bodies supplied.
C1_InformeParcial ==
    /\ error = "none"
    /\ pc # "raised"
    /\ pc = "carta_fin" => InformeCubreSuministrados

\* Entries of body a's list whose partner is b.
EntradasCon(a, b) ==
    {k \in DOMAIN aspectos_por_planeta[a] : aspectos_por_planeta[a][k].con = b}

\* C6: a's list has an entry with partner b iff b's list has one with
\* partner a, both with the same type, orb and exact flag, and an unordered
\* pair has at most one such pair of entries.
C6_AspectosSimetricos ==
    pc \notin {"carta_inicio", "aspectos_for"} =>
        \A a \in DOMAIN aspectos_por_planeta :
            /\ \A k \in DOMAIN aspectos_por_planeta[a] :
                  /\ aspectos_por_planeta[a][k].con \in DOMAIN aspectos_por_planeta
                  /\ aspectos_por_planeta[a][k].con # a
            /\ \A b \in DOMAIN aspectos_por_planeta :
                  /\ Cardinality(EntradasCon(a, b)) <= 1
                  /\ Cardinality(EntradasCon(a, b)) = Cardinality(EntradasCon(b, a))
                  /\ \A k \in EntradasCon(a, b) : \A m \in EntradasCon(b, a) :
                        /\ aspectos_por_planeta[a][k].tipo = aspectos_por_planeta[b][m].tipo
                        /\ aspectos_por_planeta[a][k].orbe = aspectos_por_planeta[b][m].orbe
                        /\ aspectos_por_planeta[a][k].exacto = aspectos_por_planeta[b][m].exacto

\* Witness of C6: three bodies, one of them with an exact aspect to the
\* second and an aspect that is not exact to the third.
C6_Witness ==
    /\ pc = "carta_senderos"
    /\ Len(planetas_lista) = 3
    /\ \E a \in DOMAIN aspectos_por_planeta :
          /\ Len(aspectos_por_planeta[a]) = 2
          /\ aspectos_por_planeta[a][1].exacto
          /\ ~aspectos_por_planeta[a][2].exacto
          /\ aspectos_por_planeta[a][1].con # aspectos_por_planeta[a][2].con


\* detectar_senderos_criticos has returned.
SenderosDetectados == pc \notin {"carta_inicio", "aspectos_for", "carta_senderos"}

\* The type of the aspect recorded for body a with body b, "" when there is
\* none.
TipoEntre(a, b) ==
    LET es == SelectSeq(planetas_savp[indice_de(planetas_savp, a)].aspectos,
                        LAMBDA e : e.con = b)
    IN  IF es = <<>> THEN "" ELSE es[1].tipo

\* The static paths whose two endpoints are the sephiroth of bodies a and b.
SenderosEntre(a, b) ==
    {num \in DOMAIN SENDEROS_ARBOL :
        Rango(SENDEROS_ARBOL[num]) =
            {PLANETA_SEPHIRAH[a], PLANETA_SEPHIRAH[b]}}

\* The unordered pairs of bodies in aspect that a static path joins.
ParesCriticos ==
    {par \in SUBSET Rango(claves(planetas_savp)) :
        /\ Cardinality(par) = 2
        /\ \E a, b \in par :
              a # b /\ TipoEntre(a, b) # "" /\ SenderosEntre(a, b) # {}}

PesoFinalDe(n) == planetas_savp[indice_de(planetas_savp, n)].peso_final

\* C12: detectar_senderos_criticos records exactly one critical path for
\* each unordered pair of bodies in aspect whose sephiroth are the two ends
\* of a static path and none for any other pair; its combined weight is the
\* sum of the two final weights, and its urgency is ALTA for a square or an
\* opposition and MEDIA otherwise.
C12_SenderosCriticos ==
    SenderosDetectados =>
        /\ \A par \in ParesCriticos :
              Cardinality({c \in DOMAIN senderos_criticos :
                              Rango(senderos_criticos[c].planetas) = par}) = 1
        /\ \A c \in DOMAIN senderos_criticos :
              LET sc == senderos_criticos[c]
                  a == sc.planetas[1]
                  b == sc.planetas[2]
              IN  /\ {a, b} \in ParesCriticos
                  /\ SenderosEntre(a, b) = {sc.sendero}
                  /\ sc.peso_combinado = PesoFinalDe(a) + PesoFinalDe(b)
                  /\ sc.aspecto.tipo = TipoEntre(a, b)
                  /\ sc.urgencia = IF TipoEntre(a, b) \in {"cuadratura", "oposicion"}
                                      THEN "ALTA" ELSE "MEDIA"

\* Three bodies: a square and a trine that paths join give one ALTA and one
\* MEDIA critical path, and the third pair, not in aspect, gives none.
C12_Witness ==
    /\ SenderosDetectados
    /\ Len(planetas_savp) = 3
    /\ Len(senderos_criticos) = 2
    /\ \E c, d \in DOMAIN senderos_criticos :
          /\ senderos_criticos[c].urgencia = "ALTA"
          /\ senderos_criticos[d].urgencia = "MEDIA"

\* C13: the list returned by detectar_senderos_criticos is in non-increasing
\* order of peso_combinado: each entry weighs at least as much as the next.
C13_OrdenDescendente ==
    SenderosDetectados =>
        \A c \in 1..(Len(senderos_criticos) - 1) :
            senderos_criticos[c].peso_combinado >= senderos_criticos[c + 1].peso_combinado

\* The pair Sol-Venus is met before the pair Sol-Marte but weighs less, so
\* the sort has moved it behind.
C13_Witness ==
    /\ SenderosDetectados
    /\ Len(senderos_criticos) = 2
    /\ senderos_criticos[1].planetas = <<"Sol", "Marte">>
    /\ senderos_criticos[2].planetas = <<"Sol", "Venus">>
    /\ senderos_criticos[1].peso_combinado > senderos_criticos[2].peso_combinado

\* ========================================================================
\* Properties of the solar return (SpecRetorno)
\* ========================================================================
\* Width of the search window and advance of the longitude across it.
AnchoVentana == Dias(2 * DiasVentana)

AvanceEnVentana == oraculo.tasa * AnchoVentana

\* diff at the left end of the window.
DiffInicial == diff(oraculo, target_lon, jd_center - Dias(DiasVentana))

\* The longitude reaches target_lon at some instant of the window.
CruceEnVentana ==
    \E k \in 0..((AvanceEnVentana \div Grados(360)) + 1) :
        /\ Grados(360) * k - DiffInicial >= 0
        /\ Grados(360) * k - DiffInicial <= AvanceEnVentana

\* The longitude advances less than half a circle across the window, as the
\* Sun's does.
OraculoLento == AvanceEnVentana < Grados(180)

\* The finder has computed jd_return.
InstanteCalculado == pc = "rs_fin" /\ jd_return # SinDistancia

\* Longitude still to run between jd_return and the nearest crossing: the
\* distance in time multiplied by oraculo.tasa.
LongitudAlCruce == Abs(diff(oraculo, target_lon, jd_return))

\* C14 as stated: with a linear oracle and a crossing inside the window, the
\* instant computed is within (width of the window) / 2^60 of the crossing,
\* that is LongitudAlCruce <= tasa * AnchoVentana / 2^60.
C14_Original ==
    (InstanteCalculado /\ CruceEnVentana) =>
        LongitudAlCruce <= (AvanceEnVentana \div (2^30)) \div (2^30)

\* C14: with a linear oracle that advances less than half a circle across
\* the window and a crossing inside the window, the Julian day computed by
\* the bisection is within one spacing of representable Julian days of the
\* crossing.
C14_RetornoCercaDelCruce ==
    (InstanteCalculado /\ CruceEnVentana /\ OraculoLento) =>
        LongitudAlCruce <= oraculo.tasa

\* A crossing strictly inside the window that is no representable Julian
\* day: the instant computed is a neighbour of it.
C14_Witness ==
    /\ InstanteCalculado
    /\ OraculoLento
    /\ DiffInicial < 0
    /\ DiffInicial + AvanceEnVentana > 0
    /\ LongitudAlCruce > 0
    /\ iteracion = NumIteraciones
    /\ jd_b - jd_a = 1

\* Number of 6-hour steps in the window.
PasosEnVentana == 2 * DiasVentana * PasosPorDia

\* The finder is running or has run: the oracle is there and the birthday
\* exists in the target year.
FinderLlamado == swe /\ fecha_valida(year, natal[1], natal[2]) /\ pc # "rs_inicio"

\* diff has the same strict sign at the 41 instants jd0, jd0 + 6 h, ..., jd1.
MismoSignoEnMuestras ==
    {k \in 0..PasosEnVentana :
        producto(diff(oraculo, target_lon, jd_center - Dias(DiasVentana) + k * step),
                 DiffInicial) <= 0} = {}

MensajeSinBracket ==
    "Error: No se pudo acotar el retorno solar (ventana insuficiente)."

\* C15: when diff has the same strict sign at every sampled instant of the
\* window, the scan makes at most 40 probes after the left end (41 instants
\* sampled), never reaches the bisection and never computes an instant, and
\* the call ends with the no-bracket error after exactly those probes; the
\* scan always comes to an end.
C15_SinBracket ==
    /\ []((FinderLlamado /\ MismoSignoEnMuestras) =>
            /\ sondas <= PasosEnVentana
            /\ pc \in {"finder_scan", "rs_fin"}
            /\ jd_return = SinDistancia
            /\ pc = "rs_fin" =>
                  /\ error = "RuntimeError"
                  /\ respuesta.detail = MensajeSinBracket
                  /\ sondas = PasosEnVentana)
    /\ ((pc = "finder_scan") ~> (pc # "finder_scan"))

C15_Witness ==
    /\ FinderLlamado
    /\ MismoSignoEnMuestras
    /\ pc = "rs_fin"
    /\ error = "RuntimeError"
    /\ sondas = PasosEnVentana
    /\ cur = jd_b + step

\* C16: the chart of the same month, day and hour is answered only when the
\* oracle is not available; when it is available and the finder finds no
\* bracket the request fails and no chart is answered; and an answer reports
\* the mode "exacto" exactly when the oracle is available.
C16_SinAproximacionSilenciosa ==
    pc = "rs_fin" =>
        /\ respuesta.carta = "aproximada" => ~swe
        /\ (swe /\ error = "RuntimeError") =>
              (respuesta.status = 500 /\ respuesta.carta = "" /\ respuesta.modo = "")
        /\ respuesta.status = 200 => (respuesta.modo = "exacto" <=> swe)

\* The oracle is there, the scan has found no bracket, and the request has
\* been answered.
C16_Witness ==
    /\ pc = "rs_fin"
    /\ swe
    /\ error = "RuntimeError"
    /\ sondas = PasosEnVentana
    /\ respuesta.status = 500

\* lon is a longitude in [0, 360).
EsLongitud(lon) == 0 <= lon /\ lon < Grados(360)

\* f is the difference the finder holds for the instant jd: congruent to
\* longitude minus target modulo 360, at least -180 and below 180.
DiferenciaPlegada(f, jd) ==
    /\ (f - (sun_lon_ut(oraculo, jd) - target_lon)) % Grados(360) = 0
    /\ 0 - Grados(180) <= f
    /\ f < Grados(180)
    /\ Abs(sun_lon_ut(oraculo, jd) - target_lon) = Grados(180) => f = 0 - Grados(180)

\* C25: for longitudes and targets in [0, 360), every value of
\* _wrap_diff_deg the finder holds (at the two ends of the bracket and at the
\* last sample of the scan) is congruent to lon - target modulo 360 and lies
\* in [-180, 180); a separation of exactly 180 degrees gives -180.
C25_DiferenciaPlegada ==
    FinderLlamado =>
        /\ EsLongitud(target_lon)
        /\ EsLongitud(sun_lon_ut(oraculo, jd_a))
        /\ EsLongitud(sun_lon_ut(oraculo, jd_b))
        /\ DiferenciaPlegada(f_a, jd_a)
        /\ DiferenciaPlegada(f_b, jd_b)
        /\ pc = "finder_scan" => DiferenciaPlegada(prev_f, prev_jd)

\* The longitude at the left end of the window is exactly opposite the
\* target and the difference taken there is -180.
C25_Witness ==
    /\ FinderLlamado
    /\ Abs(sun_lon_ut(oraculo, jd_a) - target_lon) = Grados(180)
    /\ f_a = 0 - Grados(180)

\* diff at sample j of the window: jd0 + j * 0.25.
Muestra(j) == diff(oraculo, target_lon, (jd_center - Dias(DiasVentana)) + j * step)

\* x and y have the same strict sign.
MismoSignoEstricto(x, y) == (x > 0 /\ y > 0) \/ (x < 0 /\ y < 0)

\* The bracket has been chosen and the bisection has not started.
BracketElegido == pc = "finder_biseccion" /\ iteracion = 0

\* C26: if the differences at the two ends of the window do not have the
\* same strict sign, the bracket is the whole window [center - 5 d,
\* center + 5 d]; otherwise it is the first pair of consecutive 6-hour
\* samples whose differences do not have the same strict sign, a zero sample
\* counting as a change: every earlier pair has the same strict sign.
C26_SeleccionDelBracket ==
    BracketElegido =>
        LET jd0 == jd_center - Dias(DiasVentana)
            jd1 == jd_center + Dias(DiasVentana)
        IN  IF ~MismoSignoEstricto(Muestra(0), Muestra(PasosEnVentana))
               THEN jd_a = jd0 /\ jd_b = jd1 /\ sondas = 0
                    /\ f_a = Muestra(0) /\ f_b = Muestra(PasosEnVentana)
               ELSE \E k \in 0..(PasosEnVentana - 1) :
                       /\ jd_a = jd0 + k * step
                       /\ jd_b = jd_a + step
                       /\ jd_b <= jd1
                       /\ f_a = Muestra(k) /\ f_b = Muestra(k + 1)
                       /\ ~MismoSignoEstricto(Muestra(k), Muestra(k + 1))
                       /\ \A j \in 0..(k - 1) :
                             MismoSignoEstricto(Muestra(j), Muestra(j + 1))
                       /\ sondas = k + 1

\* The scan has chosen a bracket that ends on a sample that is exactly zero,
\* after at least three probes, and a later pair of samples changes sign too.
C26_Witness ==
    /\ BracketElegido
    /\ sondas >= 3
    /\ f_b = 0
    /\ \E j \in sondas..(PasosEnVentana - 1) :
          ~MismoSignoEstricto(Muestra(j), Muestra(j + 1))

\* The finder is in the bisection or has returned its instant.
EnBiseccion == pc = "finder_biseccion" \/ InstanteCalculado

\* What holds of the bracket before and after every iteration: a <= b, the
\* bracket lies inside the initial window, fa x fb <= 0, and no more than 60
\* iterations have run.
BracketValido ==
    EnBiseccion =>
        /\ jd_a <= jd_b
        /\ jd_center - Dias(DiasVentana) <= jd_a
        /\ jd_b <= jd_center + Dias(DiasVentana)
        /\ ~MismoSignoEstricto(f_a, f_b)
        /\ iteracion <= NumIteraciones

\* The loop is left only after 60 iterations.
SesentaIteraciones ==
    (pc = "finder_biseccion" /\ pc' # "finder_biseccion") => iteracion = NumIteraciones

\* An iteration of the bisection is taken.
Itera == pc = "finder_biseccion" /\ iteracion' = iteracion + 1

\* C27 as stated: the bisection runs exactly 60 iterations, the bracket
\* stays valid, every iteration leaves exactly half of the previous width,
\* and the instant returned is the midpoint of the final bracket.
C27_Original ==
    /\ [](BracketValido
            /\ (InstanteCalculado => 2 * jd_return = jd_a + jd_b))
    /\ [][SesentaIteraciones
            /\ (Itera => 2 * (jd_b' - jd_a') = jd_b - jd_a)]_vars

\* C27: the bisection runs exactly 60 iterations whatever the differences
\* are, the bracket stays valid, every iteration leaves half of the previous
\* width to within one double spacing (the midpoint is rounded to a double),
\* and the instant returned is the midpoint of the final bracket to within
\* half a spacing.
C27_BiseccionEnDobles ==
    /\ [](BracketValido
            /\ (InstanteCalculado =>
                   /\ Abs(2 * jd_return - (jd_a + jd_b)) <= 1
                   /\ jd_a <= jd_return /\ jd_return <= jd_b))
    /\ [][SesentaIteraciones
            /\ (Itera => Abs(2 * (jd_b' - jd_a') - (jd_b - jd_a)) <= 1)]_vars

\* The instant returned after 60 iterations on a whole window whose ends are
\* odd multiples of the double spacing: the bracket has shrunk to at most one
\* spacing.
C27_Witness ==
    /\ InstanteCalculado
    /\ iteracion = NumIteraciones
    /\ sondas = 0
    /\ jd_center % 2 = 1
    /\ jd_b - jd_a <= 1

\* C28: with the oracle available, every request has a search centre, the
\* birthday's month and day in the target year, also for a birthday of 29
\* February and a target year that is not a leap year, so that the finder is
\* entered and its window laid; and the only failure of the finder is the
\* error of not finding a bracket.
C28_CentroSiempreDefinido ==
    (swe /\ pc = "rs_fin") =>
        /\ jd_a >= jd_center - Dias(DiasVentana)
        /\ jd_b <= jd_center + Dias(DiasVentana)
        /\ (jd_a < jd_b \/ iteracion > 0)
        /\ error \in {"none", "RuntimeError"}
        /\ (error = "RuntimeError" => respuesta.detail = MensajeSinBracket)

\* ========================================================================
\* Properties of the reading endpoint (SpecLectura)
\* ========================================================================
\* C19: with the router mounted and the reading engine available, a request
\* whose fase is an integer outside 0..10 is answered with status 400.
C19_FaseInvalida400 ==
    (/\ pc = "lectura_fin"
     /\ SAVP_V36_ENABLED
     /\ MOTOR_LECTURA_DISPONIBLE
     /\ fase # <<>>
     /\ fase[1] \notin 0..10) => lectura.status = 400

\* ------------------------------------------------------------------------
\* Rounding and pillar aggregation (Spec)
\* ------------------------------------------------------------------------
\* The final weight of a processed body before round(peso_final, 2): the
\* product of its four factors, in units of 1.25 x 10^-5 (every product of
\* the factor tables is a whole number of them).
PesoSinRedondear(p) ==
    (p.peso_esencial * p.M_casa * p.M_retro * p.M_aspectos) \div 1250

\* The values x / unidad rounds to, both neighbours at an exact tie.  One
\* hundredth is 800 units of PesoSinRedondear.
Redondeos(x, unidad) ==
    LET q == x \div unidad
        r == x % unidad
    IN  IF 2 * r > unidad THEN {q + 1}
        ELSE IF 2 * r < unidad THEN {q}
        ELSE {q, q + 1}

\* Sum of the unrounded final weights of the bodies of pillar pil.
SumaSinRedondear(pil) ==
    LET suyos == SelectSeq(planetas_savp, LAMBDA q : q.pilar = pil)
    IN  sumar_pesos([k \in DOMAIN suyos |-> [peso |-> PesoSinRedondear(suyos[k])]])

TotalSinRedondear ==
    sumar_pesos([k \in DOMAIN planetas_savp |->
                    [peso |-> PesoSinRedondear(planetas_savp[k])]])

\* C17: rounding happens only at presentation: the combined weight of a
\* critical path is the sum of the two unrounded final weights rounded once
\* to 2 decimals, and the weight sum and the percentage of every pillar come
\* from the unrounded final weights of its bodies.
C17_RedondeoSoloAlPresentar ==
    /\ SenderosDetectados =>
          \A c \in DOMAIN senderos_criticos :
              LET sc == senderos_criticos[c]
                  a == planetas_savp[indice_de(planetas_savp, sc.planetas[1])]
                  b == planetas_savp[indice_de(planetas_savp, sc.planetas[2])]
              IN  sc.peso_combinado \in
                      Redondeos(PesoSinRedondear(a) + PesoSinRedondear(b), 800)
    /\ informe.devuelto =>
          \A k \in DOMAIN Pilares :
              LET pil == Pilares[k] IN
              /\ informe.pilares[pil].peso_total \in
                     Redondeos(SumaSinRedondear(pil), 800)
              /\ informe.porcentajes[pil] \in
                     porcentaje_de(SumaSinRedondear(pil), TotalSinRedondear)

\* The (pillar, position) entries of the report that list body n.
EntradasDe(n) ==
    UNION {{<<pil, k>> : k \in {m \in DOMAIN informe.pilares[pil].planetas :
                                   informe.pilares[pil].planetas[m].nombre = n}} :
           pil \in Rango(Pilares)}

\* Sum of the final weights of the processed bodies of pillar pil, of all
\* processed bodies when pil is "".
RECURSIVE SumaPesoFinal(_, _)
SumaPesoFinal(savp, pil) ==
    IF savp = <<>> THEN 0
    ELSE (IF pil \in {"", Head(savp).pilar} THEN Head(savp).peso_final ELSE 0)
            + SumaPesoFinal(Tail(savp), pil)

\* C18: in a returned report every processed body is listed in exactly one
\* of the three pillars, that of its sephirah; the weight sum of a pillar is
\* the sum of the final weights of its bodies, so the three sums add up to
\* the sum of all final weights; and the percentage of a pillar is its sum
\* divided by that total, times 100, rounded to 1 decimal.
C18_AgregacionPorPilares ==
    informe.devuelto =>
        LET total == SumaPesoFinal(planetas_savp, "") IN
        /\ DOMAIN informe.pilares = Rango(Pilares)
        /\ \A k \in DOMAIN planetas_savp :
              LET p == planetas_savp[k] IN
              /\ Cardinality(EntradasDe(p.nombre)) = 1
              /\ \A e \in EntradasDe(p.nombre) :
                    /\ e[1] = SEPHIRAH_PILAR[p.sephirah]
                    /\ informe.pilares[e[1]].planetas[e[2]].peso = p.peso_final
        /\ \A pil \in Rango(Pilares) :
              /\ \A m \in DOMAIN informe.pilares[pil].planetas :
                    informe.pilares[pil].planetas[m].nombre
                        \in Rango(claves(planetas_savp))
              /\ informe.pilares[pil].peso_total = SumaPesoFinal(planetas_savp, pil)
              /\ 2 * Abs(1000 * informe.pilares[pil].peso_total
                            - informe.porcentajes[pil] * total) <= total
        /\ informe.pilares["izquierdo"].peso_total
              + informe.pilares["central"].peso_total
              + informe.pilares["derecho"].peso_total = total

\* A report of three bodies, one in each pillar, in which no percentage is a
\* whole number of tenths before rounding.
C18_Witness ==
    /\ informe.devuelto
    /\ Len(planetas_savp) = 3
    /\ \A pil \in Rango(Pilares) :
          /\ Len(informe.pilares[pil].planetas) = 1
          /\ (1000 * informe.pilares[pil].peso_total)
                 % SumaPesoFinal(planetas_savp, "") # 0

\* ------------------------------------------------------------------------
\* Order of the reference angles (SpecAngulo)
\* ------------------------------------------------------------------------
\* The reference angles whose tolerance admits the separation d.
Coincidencias(d) ==
    {k \in DOMAIN ASPECTOS : Abs(d - ASPECTOS[k].angulo) <= ASPECTOS[k].orbe_max}

\* The table of detectar_aspecto in every order of its five entries.
TablasReordenadas ==
    {[k \in DOMAIN ASPECTOS |-> ASPECTOS[perm[k]]] :
        perm \in Permutations(DOMAIN ASPECTOS)}

\* C20: for every separation in [0,180] at most one of the five reference
\* angles matches within its tolerance, and what detectar_aspecto returns is
\* what it would return with the reference angles tried in any other order.
C20_SinAmbiguedad ==
    pc \in {"angulo_aspecto", "angulo_fin"} =>
        /\ distancia >= 0
        /\ distancia <= Grados(180)
        /\ Cardinality(Coincidencias(distancia)) <= 1
        /\ \A tabla \in TablasReordenadas :
              detectar_aspecto_en(tabla, distancia) = aspecto_data

\* A sextile at the upper edge of its tolerance, 66 degrees, the separation
\* at which a sextile lies closest to the square's range.
C20_Witness ==
    /\ pc = "angulo_aspecto"
    /\ distancia = Grados(66)
    /\ aspecto_data = <<"sextil", Grados(6)>>

\* ------------------------------------------------------------------------
\* The static paths (Spec)
\* ------------------------------------------------------------------------
Sephiroth == DOMAIN SEPHIRAH_PILAR

\* C23: the table has exactly 22 paths, each joins two distinct sephiroth,
\* no two paths join the same unordered pair, and Daath is an endpoint of
\* none; buscar_sendero_entre_sephiroth returns no path when either argument
\* is Daath, so Pluton, the body of Daath, is in no critical path and has no
\* aspect path.
C23_TopologiaEstatica ==
    /\ Cardinality(DOMAIN SENDEROS_ARBOL) = 22
    /\ \A num \in DOMAIN SENDEROS_ARBOL :
          /\ Len(SENDEROS_ARBOL[num]) = 2
          /\ SENDEROS_ARBOL[num][1] # SENDEROS_ARBOL[num][2]
          /\ Rango(SENDEROS_ARBOL[num]) \subseteq Sephiroth
          /\ "Daath" \notin Rango(SENDEROS_ARBOL[num])
    /\ \A a, b \in DOMAIN SENDEROS_ARBOL :
          a # b => Rango(SENDEROS_ARBOL[a]) # Rango(SENDEROS_ARBOL[b])
    /\ \A s \in Sephiroth :
          /\ buscar_sendero_entre_sephiroth(s, "Daath") = 0
          /\ buscar_sendero_entre_sephiroth("Daath", s) = 0
    /\ PLANETA_SEPHIRAH["Pluton"] = "Daath"
    /\ SenderosDetectados =>
          /\ \A c \in DOMAIN senderos_criticos :
                "Pluton" \notin Rango(senderos_criticos[c].planetas)
          /\ \A k \in DOMAIN planetas_savp :
                planetas_savp[k].nombre = "Pluton"
                    => planetas_savp[k].senderos_aspectos = <<>>

\* Pluton is in aspect with a body that has a critical path with a third
\* one, and the paths have been detected.
C23_Witness ==
    /\ SenderosDetectados
    /\ "Pluton" \in Rango(claves(planetas_savp))
    /\ \E a \in Rango(claves(planetas_savp)) :
          /\ TipoEntre("Pluton", a) # ""
          /\ \E c \in DOMAIN senderos_criticos :
                a \in Rango(senderos_criticos[c].planetas)

\* ------------------------------------------------------------------------
\* Aspect paths and critical paths (Spec)
\* ------------------------------------------------------------------------
\* The critical paths of the list cs that join bodies a and b by path num.
CriticosDe(cs, a, b, num) ==
    {c \in DOMAIN cs : Rango(cs[c].planetas) = {a, b} /\ cs[c].sendero = num}

\* The bodies savp and the critical paths cs agree: every aspect path of a
\* body has its one critical path, and every critical path is among the
\* critical paths and among the aspect paths of its two bodies.
SenderosCoinciden(savp, cs) ==
    /\ \A k \in DOMAIN savp :
          \A e \in DOMAIN savp[k].senderos_aspectos :
              LET sa == savp[k].senderos_aspectos[e] IN
              Cardinality(CriticosDe(cs, savp[k].nombre, sa.aspecto.con, sa.sendero)) = 1
    /\ \A c \in DOMAIN cs :
          /\ Cardinality(Rango(cs[c].planetas)) = 2
          /\ \A n \in Rango(cs[c].planetas) :
                LET p == savp[indice_de(savp, n)]
                    otro == CHOOSE m \in Rango(cs[c].planetas) : m # n
                IN  /\ indice_de(savp, n) # 0
                    /\ cs[c] \in Rango(p.senderos_criticos)
                    /\ \E e \in DOMAIN p.senderos_aspectos :
                          /\ p.senderos_aspectos[e].sendero = cs[c].sendero
                          /\ p.senderos_aspectos[e].aspecto.con = otro

\* C24: the aspect paths of the bodies and the critical paths agree as soon
\* as both are computed, and in the report returned: for every aspect path
\* of p with partner q there is exactly one critical path of {p, q} with the
\* same path, and every critical path {p, q} is in the senderos_criticos and
\* in the senderos_aspectos of both p and q.
C24_SenderosCoinciden ==
    /\ SenderosDetectados => SenderosCoinciden(planetas_savp, senderos_criticos)
    /\ informe.devuelto =>
          /\ informe.senderos_criticos_resumen = senderos_criticos
          /\ \A k \in DOMAIN planetas_savp :
                informe.planetas_savp[planetas_savp[k].nombre] = planetas_savp[k]

\* A report with two critical paths, one of them on an aspect that is not
\* exact, and a body that has both among its aspect paths.
C24_Witness ==
    /\ informe.devuelto
    /\ Len(senderos_criticos) = 2
    /\ \E c \in DOMAIN senderos_criticos : ~senderos_criticos[c].aspecto.exacto
    /\ \E k \in DOMAIN planetas_savp :
          /\ Len(planetas_savp[k].senderos_aspectos) = 2
          /\ Len(planetas_savp[k].senderos_criticos) = 2

\* ------------------------------------------------------------------------
\* The exact flag and the recorded orb (Spec)
\* ------------------------------------------------------------------------
\* Number of entries of a list of aspects whose recorded orb is at most 3.
RECURSIVE contar_orbes_cortos(_)
contar_orbes_cortos(aspectos) ==
    IF aspectos = <<>> THEN 0
    ELSE (IF Head(aspectos).orbe <= Grados(3) THEN 1 ELSE 0)
            + contar_orbes_cortos(Tail(aspectos))

\* C30: in every aspect record exacto is true if and only if the orbe of the
\* same record is at most 3.0, so the aspect multiplier of a body is the one
\* its recorded orbs give.
C30_ExactoSegunOrbeRegistrado ==
    /\ \A n \in DOMAIN aspectos_por_planeta :
          \A e \in DOMAIN aspectos_por_planeta[n] :
              aspectos_por_planeta[n][e].exacto
                  <=> (aspectos_por_planeta[n][e].orbe <= Grados(3))
    /\ \A k \in DOMAIN planetas_savp :
          planetas_savp[k].M_aspectos =
              M_aspectos_de(contar_orbes_cortos(planetas_savp[k].aspectos))

\* ========================================================================
\* Properties of the convergences in the tikun (SpecTikun)
\* ========================================================================
\* Number of nodes of the returned graph whose outgoing edge targets conv.
GradoDeEntrada(conv) ==
    Cardinality({n \in DOMAIN informe.cadena_dispositores.nodos :
                    informe.cadena_dispositores.nodos[n].dispositor = conv})

\* C29: for every convergence the tikun classifies, the inbound count is the
\* in-degree of the node in the dispositor graph, at least 2; the urgency is
\* CRITICA when count / final weight > 5 (or the weight is not positive),
\* ALTA when it is > 3 and MEDIA otherwise; and the text of phase 3 states
\* the same count.
C29_PresionDeConvergencia ==
    tikun.devuelto =>
        /\ {tikun.convergencias[e].planeta : e \in DOMAIN tikun.convergencias}
              = informe.cadena_dispositores.convergencias
        /\ \A e \in DOMAIN tikun.convergencias :
              LET tc == tikun.convergencias[e]
                  peso == informe.planetas_savp[tc.planeta].peso_final
              IN  /\ tc.num_entradas = GradoDeEntrada(tc.planeta)
                  /\ tc.num_entradas >= 2
                  /\ tc.urgencia =
                        (IF peso <= 0 \/ tc.num_entradas * 100 > 5 * peso THEN "CRITICA"
                         ELSE IF tc.num_entradas * 100 > 3 * peso THEN "ALTA"
                         ELSE "MEDIA")
                  /\ fase3.devuelto =>
                        \E f \in DOMAIN fase3.convergencias :
                            /\ fase3.convergencias[f].planeta = tc.planeta
                            /\ fase3.convergencias[f].entradas = tc.num_entradas
====
